---------------------------- MODULE Spec2Model ----------------------------
(***************************************************************************)
(* A model of the Backdoor AI learning server:                             *)
(*   - the retraining orchestrator (app.py upload_model / train_model_job, *)
(*     learning/trainer.py, utils/db_helpers.py), specification Spec;      *)
(*   - the ingest transaction (utils/db_helpers.py store_interactions),    *)
(*     specification SpecIngest;                                           *)
(*   - the OAuth2 token manager (utils/token_manager.py), specification    *)
(*     SpecToken;                                                          *)
(*   - the further subsystems, each under a specification of its own:      *)
(*     SpecSync, SpecSweep, SpecRetrain, SpecBase, SpecUpload, SpecThreads, *)
(*     SpecSave, SpecConn, SpecRef, SpecData, SpecAuth, SpecLocks and      *)
(*     SpecStream; SpecFair and SpecSyncFair add the fairness of the       *)
(*     scheduler's loop.                                                   *)
(* The specifications share the module's variables; each one moves only    *)
(* the variables of its own subsystem.                                     *)
(***************************************************************************)
EXTENDS Integers, Sequences, FiniteSets, TLC

VARIABLES
    \* ---- relational store (utils/db_helpers.py init_db) ----
    uploaded_models,   \* sequence of rows; the row id is its index
    model_versions,    \* set of rows [version, path, created_at]
    ensemble_models,   \* set of rows [ensemble_version, components]
    \* ---- blob store and local disk ----
    blobs,             \* versions v with model_<v>.mlmodel in the models folder
    local_files,       \* versions v with model_<v>.mlmodel on the local disk
    \* ---- processes ----
    clock,             \* wall clock, in seconds
    db_lock,           \* app.py db_lock: the cycle that holds it, {} when free
    awaiting,          \* upload handlers that stored their row and have not
                       \* yet evaluated should_retrain
    cycles,            \* one record per execution of train_new_model
    \* ---- ingest (store_interactions) ----
    interactions,      \* committed interactions table: id -> row or NoRow
    feedback,          \* committed feedback table: id -> row or NoRow
    ingest,            \* the ingest handler: pc, batch, transaction workspace
    \* ---- token manager ----
    tm,                \* TokenManager fields
    tok,               \* the token endpoint's request log and the last call
    \* ---- blob store client and snapshot sync ----
    sync,              \* the store's revision and the DB snapshots pushed
    bop,               \* the last blob store operation and how it went
    models_folder,     \* the .mlmodel objects of the blob store's models folder
    base_model_folder, \* the objects under base_model/
    version_rows,      \* the versions that have a model_versions row
    sweep,             \* the last retention sweep and what it did
    retrain,           \* the last call of should_retrain: what it read, its result
    base,              \* the base-model objects of the blob store and the publisher
    model_cache,       \* model_download.py _model_cache['1.0.0']
    readers,           \* the threads inside get_base_model_buffer
    req,               \* the last request to POST /api/ai/upload-model
    thr,               \* the threads inside get_valid_access_token
    posts,             \* the requests sent to the token endpoint
    \* ---- saveVars ----
    tfile,            \* the token file on disk
    saver,            \* the process that saves and loads the token file
    \* ---- connVars ----
    conn,             \* the call of get_connection in progress and what it did
    \* ---- refVars ----
    ublobs,           \* the uploaded-model objects of the models folder: name -> content
    urows,            \* the uploaded_models rows: blob_ref and the content the request carried
    ureqs,            \* the upload requests handled so far
    \* ---- dataVars ----
    user_data,        \* the JSON files under user_data/: second -> the batch mirrored there
    dataset,          \* the ids of the dataset the last prepare_training_data built
    \* ---- authVars ----
    auth,             \* the blob store client inside its authentication
    \* ---- lockVars ----
    held,             \* owner and depth of each process lock (threading.RLock)
    prog,             \* what each thread runs and where it is
    \* ---- streamVars ----
    stream,           \* the StreamingModelFile and what its last operation returned
    memfile           \* an in-memory file over the same bytes, driven by the same operations

vars == <<uploaded_models, model_versions, ensemble_models, blobs, local_files,
          clock, db_lock, awaiting, cycles, interactions, feedback, ingest,
          tm, tok, sync, bop, models_folder, base_model_folder,
          version_rows, sweep, retrain, base, model_cache, readers, req,
          thr, posts,
          tfile, saver,
          conn,
          ublobs, urows, ureqs,
          user_data, dataset,
          auth,
          held, prog,
          stream, memfile>>

orchVars   == <<uploaded_models, model_versions, ensemble_models, blobs,
                local_files, db_lock, awaiting, cycles>>
ingestVars == <<interactions, feedback, ingest>>
tokenVars  == <<tm, tok>>
syncVars   == <<sync, bop>>
sweepVars  == <<models_folder, base_model_folder, version_rows, sweep>>
retrainVars == <<retrain>>
baseVars   == <<base, model_cache, readers>>
uploadVars == <<req>>
threadVars == <<thr, posts>>
coreVars   == <<orchVars, ingestVars, tokenVars, syncVars, sweepVars,
                retrainVars, baseVars, uploadVars, threadVars>>
saveVars == <<tfile, saver>>
connVars == <<conn>>
refVars == <<ublobs, urows, ureqs>>
dataVars == <<user_data, dataset>>
authVars == <<auth>>
lockVars == <<held, prog>>
streamVars == <<stream, memfile>>
auxVars    == <<saveVars, connVars, refVars, dataVars, authVars, lockVars, streamVars>>

---------------------------------------------------------------------------
(* Bounds of the model *)

MaxUploads == 3     \* upload requests accepted in one behaviour
MaxCycles == 2      \* executions of train_new_model in one behaviour
MaxClock == 2       \* the clock runs over 1..MaxClock
MaxBatch == 2       \* interactions in one /api/ai/learn batch
MaxIssued == 2      \* access tokens the token endpoint issues
MaxElapsed == 600   \* seconds the token manager's clock runs for
MaxWrites == 2      \* commits to the store while the snapshot sync is observed
MaxSyncElapsed == 120   \* seconds the snapshot sync's clock runs for
MaxStamp == 6           \* trained versions the retention model stores
MaxFaults == 1          \* blob store calls that fail within one sweep
MaxPublishes == 2       \* versions published while the base model is read
MaxPosts == 3           \* requests the token endpoint receives
MaxThreadElapsed == 120 \* seconds the concurrent callers' clock runs for

(* Program constants *)

T_pending == 3            \* RETRAINING_THRESHOLDS['pending_models']
T_hours == 12             \* RETRAINING_THRESHOLDS['hours_since_last_training']
T_interactions == 100     \* RETRAINING_THRESHOLDS['new_interactions']
MAX_MODELS_TO_KEEP == 5
refresh_threshold_seconds == 300   \* TokenManager.refresh_threshold_seconds
refresh_cooldown == 60             \* TokenManager.refresh_cooldown
DROPBOX_DB_SYNC_INTERVAL == 60     \* memory_db.py, seconds

SeedVersion == 0          \* the reserved version "1.0.0": prefix "1.0." + "0"
NoVersion == -1           \* SQL NULL in incorporated_in_version

Cycles == 1..MaxCycles

---------------------------------------------------------------------------
(* Helpers over the uploaded_models table *)

UploadIds == 1..Len(uploaded_models)

WithStatus(S) == {i \in UploadIds : uploaded_models[i].status \in S}

\* SELECT COUNT(*) FROM uploaded_models WHERE incorporation_status = 'pending'
PendingCount == Cardinality(WithStatus({"pending"}))

\* get_pending_uploaded_models: status IN ('pending', 'processing')
get_pending_uploaded_models == WithStatus({"pending", "processing"})

\* An update that selects its rows by status instead of by id
SetStatusByStatus(rows, S, status, version) ==
    [i \in 1..Len(rows) |->
        IF rows[i].status \in {"pending", "processing"}
        THEN [status |-> status,
              version |-> IF version # NoVersion THEN version
                          ELSE rows[i].version]
        ELSE rows[i]]

\* update_model_incorporation_status for every id of S: the version column
\* is written only when a version is given
SetStatus(rows, S, status, version) ==
    [i \in 1..Len(rows) |->
        IF i \in S
        THEN [status |-> status,
              version |-> IF version # NoVersion THEN version
                          ELSE rows[i].version]
        ELSE rows[i]]


\* should_retrain with the new-interactions branch not asking for a pending
\* upload
ShouldRetrainAnyInteractions(pending, has_last_training, hours_since, new_interactions) ==
    IF pending >= T_pending THEN "pending_models"
    ELSE IF has_last_training /\ hours_since > T_hours /\ pending > 0
         THEN "hours_since_last_training"
    ELSE IF has_last_training /\ new_interactions >= T_interactions
         THEN "new_interactions"
    ELSE "none"

\* trainer.py should_retrain: the branch that decides, "none" when it
\* returns False.  last_training is NULL while model_versions is empty.
ShouldRetrainReason(pending, has_last_training, hours_since, new_interactions) ==
    IF pending >= T_pending THEN "pending_models"
    ELSE IF has_last_training /\ hours_since > T_hours /\ pending > 0
         THEN "hours_since_last_training"
    ELSE IF has_last_training /\ new_interactions >= T_interactions /\ pending > 0
         THEN "new_interactions"
    ELSE "none"

should_retrain(hours_since, new_interactions) ==
    ShouldRetrainReason(PendingCount, model_versions # {},
                        hours_since, new_interactions) # "none"

\* What the wall clock and the interactions table can present to should_retrain
HoursInputs == {0, T_hours, T_hours + 1}
InteractionInputs == {0, T_interactions}

\* trainer_dropbox.py clean_old_models_dropbox: the versioned artifacts of the
\* models folder except BASE_MODEL_NAME, newest keep_newest by timestamp kept
clean_old_models_dropbox(bs, keep_newest) ==
    LET model_files == bs \ {SeedVersion}
        Newer(v) == {w \in model_files : w > v}
    IN  IF Cardinality(model_files) <= keep_newest THEN bs
        ELSE {v \in bs : v = SeedVersion \/ Cardinality(Newer(v)) < keep_newest}

\* app.py get_latest_model_info: ORDER BY created_at DESC LIMIT 1; rows with
\* the same created_at second come in an order SQLite does not fix.  With no
\* row the default '1.0.0' is reported.
LatestCandidates ==
    IF model_versions = {} THEN {SeedVersion}
    ELSE {r.version : r \in {q \in model_versions :
                \A o \in model_versions : o.created_at <= q.created_at}}

\* app.py get_model: what GET /api/ai/models/<version> resolves to
Resolve(v) ==
    IF v \in blobs THEN IF v = SeedVersion THEN "Bytes" ELSE "Stream"
    ELSE IF \E r \in model_versions :
                r.version = v /\ r.path = "local" /\ v \in local_files
         THEN "Bytes"
    ELSE "NotFound"

---------------------------------------------------------------------------
(* The orchestrator *)

IdleCycle == [pc |-> "idle", owner |-> "none", version |-> NoVersion,
              models |-> {}, is_ensemble |-> FALSE, none_added |-> FALSE,
              path |-> "none", stored |-> FALSE]

FreeSlots == {t \in Cycles : cycles[t].pc = "idle"}
LowestFree == CHOOSE t \in FreeSlots : \A u \in FreeSlots : t <= u

Terminal == {"done", "aborted", "failed"}
Running(t) == cycles[t].pc \notin Terminal \cup {"idle"}

\* the lock of app.py is released when the scheduler's "with db_lock" ends
ReleaseLock(t) == db_lock \ {t}

\* threading.Thread(target=trigger_retraining).start(), or the scheduler's
\* direct call under db_lock
StartCycle(owner) ==
    [cycles EXCEPT ![LowestFree] = [IdleCycle EXCEPT !.pc = "start",
                                                     !.owner = owner]]

\* app.py upload_model, lines 288-319: the blob is uploaded, then the row is
\* stored while db_lock is held
UploadStore ==
    /\ Len(uploaded_models) < MaxUploads
    /\ db_lock = {}
    /\ uploaded_models' = Append(uploaded_models,
                                 [status |-> "pending", version |-> NoVersion])
    /\ awaiting' = awaiting \cup {Len(uploaded_models) + 1}
    /\ UNCHANGED <<model_versions, ensemble_models, blobs, local_files, clock,
                   db_lock, cycles, ingestVars, tokenVars, syncVars,
                   sweepVars, retrainVars,
                   baseVars, uploadVars, threadVars, auxVars>>

\* app.py upload_model, lines 321-332: should_retrain, then the thread
UploadTrigger(h) ==
    /\ h \in awaiting
    /\ \E hrs \in HoursInputs, ni \in InteractionInputs :
          IF should_retrain(hrs, ni)
          THEN /\ FreeSlots # {}
               /\ cycles' = StartCycle("upload")
          ELSE cycles' = cycles
    /\ awaiting' = awaiting \ {h}
    /\ UNCHANGED <<uploaded_models, model_versions, ensemble_models, blobs,
                   local_files, clock, db_lock, ingestVars, tokenVars, syncVars,
                   sweepVars, retrainVars,
                   baseVars, uploadVars, threadVars, auxVars>>

\* app.py train_model_job: the scheduler thread runs one job at a time
SchedulerJob ==
    /\ \A t \in Cycles : cycles[t].owner = "sched" => ~Running(t)
    /\ \E hrs \in HoursInputs, ni \in InteractionInputs : should_retrain(hrs, ni)
    /\ db_lock = {}
    /\ FreeSlots # {}
    /\ cycles' = StartCycle("sched")
    /\ db_lock' = {LowestFree}
    /\ UNCHANGED <<uploaded_models, model_versions, ensemble_models, blobs,
                   local_files, clock, awaiting, ingestVars, tokenVars, syncVars,
                   sweepVars, retrainVars,
                   baseVars, uploadVars, threadVars, auxVars>>

Tick ==
    /\ clock < MaxClock
    /\ clock' = clock + 1
    /\ UNCHANGED <<orchVars, ingestVars, tokenVars, syncVars,
                   sweepVars, retrainVars,
                   baseVars, uploadVars, threadVars, auxVars>>


(* train_new_model, trainer.py lines 266-471, one action per store access *)

Goto(t, pc) == [cycles EXCEPT ![t].pc = pc]

\* the call returns: its locals are gone, the slot records how it ended
End(t, pc) == [cycles EXCEPT ![t] = [IdleCycle EXCEPT !.pc = pc]]

\* app.py train_model_job, line 582: whatever train_new_model returned, the
\* scheduler applies the retention to the blob store
AfterReturn(t, bs) ==
    IF cycles[t].owner = "sched"
    THEN clean_old_models_dropbox(bs, MAX_MODELS_TO_KEEP)
    ELSE bs

\* A cycle that selects and marks its uploads before it looks at the dataset
CycleInsufficientAfterMark(t) ==
    /\ cycles[t].pc = "start"
    /\ uploaded_models' = SetStatus(uploaded_models, get_pending_uploaded_models,
                                    "processing", NoVersion)
    /\ cycles' = End(t, "aborted")
    /\ db_lock' = ReleaseLock(t)
    /\ blobs' = AfterReturn(t, blobs)
    /\ UNCHANGED <<model_versions, ensemble_models,
                   local_files, clock, awaiting, ingestVars, tokenVars, syncVars,
                   sweepVars, retrainVars,
                   baseVars, uploadVars, threadVars, auxVars>>

\* lines 282-285: prepare_training_data returned None (fewer rows than
\* MIN_TRAINING_DATA); the current version is returned
CycleInsufficient(t) ==
    /\ cycles[t].pc = "start"
    /\ cycles' = End(t, "aborted")
    /\ db_lock' = ReleaseLock(t)
    /\ blobs' = AfterReturn(t, blobs)
    /\ UNCHANGED <<uploaded_models, model_versions, ensemble_models,
                   local_files, clock, awaiting, ingestVars, tokenVars, syncVars,
                   sweepVars, retrainVars,
                   baseVars, uploadVars, threadVars, auxVars>>

\* lines 293-300 and intent_classifier.py lines 127-129: the version is the
\* prefix followed by the wall-clock second of the end of training
CycleTrain(t) ==
    /\ cycles[t].pc = "start"
    /\ cycles' = [cycles EXCEPT ![t].pc = "getpending", ![t].version = clock]
    /\ UNCHANGED <<uploaded_models, model_versions, ensemble_models, blobs,
                   local_files, clock, db_lock, awaiting, ingestVars, tokenVars, syncVars,
                   sweepVars, retrainVars,
                   baseVars, uploadVars, threadVars, auxVars>>

\* lines 304-306: the list read here is the one every later step uses
CycleGetPending(t) ==
    /\ cycles[t].pc = "getpending"
    /\ cycles' = [cycles EXCEPT
                    ![t].models = get_pending_uploaded_models,
                    ![t].pc = IF get_pending_uploaded_models = {}
                              THEN "save" ELSE "mark"]
    /\ UNCHANGED <<uploaded_models, model_versions, ensemble_models, blobs,
                   local_files, clock, db_lock, awaiting, ingestVars, tokenVars, syncVars,
                   sweepVars, retrainVars,
                   baseVars, uploadVars, threadVars, auxVars>>

\* lines 310-312
CycleMarkProcessing(t) ==
    /\ cycles[t].pc = "mark"
    /\ uploaded_models' = SetStatus(uploaded_models, cycles[t].models,
                                    "processing", NoVersion)
    /\ cycles' = Goto(t, "fuse")
    /\ UNCHANGED <<model_versions, ensemble_models, blobs, local_files, clock,
                   db_lock, awaiting, ingestVars, tokenVars, syncVars,
                   sweepVars, retrainVars,
                   baseVars, uploadVars, threadVars, auxVars>>

\* lines 315-320, 347: create_ensemble returns True with is_ensemble set, or
\* False after an exception of its own.  intent_classifier.py lines 174-323:
\* an upload whose iteration raises is left out of the estimators (line 321,
\* continue); none_added says that this happened to every upload, the
\* VotingClassifier of lines 329-336 is built all the same.
CycleCreateEnsemble(t) ==
    /\ cycles[t].pc = "fuse"
    /\ \E ensemble_success \in BOOLEAN, none_added \in BOOLEAN :
          cycles' = [cycles EXCEPT
                        ![t].is_ensemble = ensemble_success,
                        ![t].none_added = none_added,
                        ![t].pc = IF ensemble_success THEN "ensrow"
                                  ELSE "failmark"]
    /\ UNCHANGED <<uploaded_models, model_versions, ensemble_models, blobs,
                   local_files, clock, db_lock, awaiting, ingestVars, tokenVars, syncVars,
                   sweepVars, retrainVars,
                   baseVars, uploadVars, threadVars, auxVars>>

EnsembleKeys == {e.ensemble_version : e \in ensemble_models}
VersionKeys == {r.version : r \in model_versions}

\* lines 325-342: INSERT INTO ensemble_models; ensemble_version is the primary
\* key, a second row for it raises IntegrityError, which line 469 catches
CycleInsertEnsemble(t) ==
    /\ cycles[t].pc = "ensrow"
    /\ IF cycles[t].version \in EnsembleKeys
       THEN /\ cycles' = End(t, "failed")
            /\ db_lock' = ReleaseLock(t)
            /\ blobs' = AfterReturn(t, blobs)
            /\ UNCHANGED ensemble_models
       ELSE /\ ensemble_models' = ensemble_models \cup
                    {[ensemble_version |-> cycles[t].version,
                      components |-> cycles[t].models]}
            /\ cycles' = Goto(t, "incorporate")
            /\ UNCHANGED <<db_lock, blobs>>
    /\ UNCHANGED <<uploaded_models, model_versions, local_files, clock,
                   awaiting, ingestVars, tokenVars, syncVars,
                   sweepVars, retrainVars,
                   baseVars, uploadVars, threadVars, auxVars>>

\* lines 345-346
CycleIncorporate(t) ==
    /\ cycles[t].pc = "incorporate"
    /\ uploaded_models' = SetStatus(uploaded_models, cycles[t].models,
                                    "incorporated", cycles[t].version)
    /\ cycles' = Goto(t, "save")
    /\ UNCHANGED <<model_versions, ensemble_models, blobs, local_files, clock,
                   db_lock, awaiting, ingestVars, tokenVars, syncVars,
                   sweepVars, retrainVars,
                   baseVars, uploadVars, threadVars, auxVars>>

\* lines 350-351
CycleMarkFailed(t) ==
    /\ cycles[t].pc = "failmark"
    /\ uploaded_models' = SetStatus(uploaded_models, cycles[t].models,
                                    "failed", NoVersion)
    /\ cycles' = Goto(t, "save")
    /\ UNCHANGED <<model_versions, ensemble_models, blobs, local_files, clock,
                   db_lock, awaiting, ingestVars, tokenVars, syncVars,
                   sweepVars, retrainVars,
                   baseVars, uploadVars, threadVars, auxVars>>

\* lines 354-358 and intent_classifier.py save: the CoreML file is written
\* unless the conversion fails, which save() only records in model_info
CycleSave(t) ==
    /\ cycles[t].pc = "save"
    /\ \E coreml_ok \in BOOLEAN :
          local_files' = IF coreml_ok THEN local_files \cup {cycles[t].version}
                         ELSE local_files
    /\ cycles' = Goto(t, "upload")
    /\ UNCHANGED <<uploaded_models, model_versions, ensemble_models, blobs,
                   clock, db_lock, awaiting, ingestVars, tokenVars, syncVars,
                   sweepVars, retrainVars,
                   baseVars, uploadVars, threadVars, auxVars>>

\* db_helpers.py store_model_version, lines 589-610: the artifact is uploaded
\* when the file exists and the blob store accepts it; every failure is
\* logged and the function goes on with the local path
CycleUploadArtifact(t) ==
    /\ cycles[t].pc = "upload"
    /\ \E upload_ok \in BOOLEAN :
          LET success == upload_ok /\ cycles[t].version \in local_files
          IN  /\ blobs' = IF success THEN blobs \cup {cycles[t].version}
                          ELSE blobs
              /\ cycles' = [cycles EXCEPT
                              ![t].path = IF success THEN "dropbox" ELSE "local",
                              ![t].pc = "insert"]
    /\ UNCHANGED <<uploaded_models, model_versions, ensemble_models,
                   local_files, clock, db_lock, awaiting, ingestVars, tokenVars, syncVars,
                   sweepVars, retrainVars,
                   baseVars, uploadVars, threadVars, auxVars>>

\* db_helpers.py store_model_version, lines 614-652: one transaction inserts
\* the model_versions row and, for an ensemble, the ensemble_models row; a
\* primary-key conflict in either rolls both back and False is returned
StoreModelVersionRows(t) ==
    LET v == cycles[t].version
    IN  IF v \in VersionKeys \/ (cycles[t].is_ensemble /\ v \in EnsembleKeys)
        THEN <<model_versions, ensemble_models>>
        ELSE <<model_versions \cup
                  {[version |-> v, path |-> cycles[t].path, created_at |-> clock]},
               IF cycles[t].is_ensemble
               THEN ensemble_models \cup
                      {[ensemble_version |-> v, components |-> cycles[t].models]}
               ELSE ensemble_models>>

\* what store_model_version returns (lines 646 and 651); trainer.py lines
\* 361-369 drop it
StoreModelVersionResult(t) ==
    ~(\/ cycles[t].version \in VersionKeys
      \/ (cycles[t].is_ensemble /\ cycles[t].version \in EnsembleKeys))

CycleInsertVersion(t) ==
    /\ cycles[t].pc = "insert"
    /\ model_versions' = StoreModelVersionRows(t)[1]
    /\ ensemble_models' = StoreModelVersionRows(t)[2]
    /\ cycles' = [cycles EXCEPT ![t].pc = "clean",
                                ![t].stored = StoreModelVersionResult(t)]
    /\ UNCHANGED <<uploaded_models, blobs, local_files, clock, db_lock,
                   awaiting, ingestVars, tokenVars, syncVars,
                   sweepVars, retrainVars,
                   baseVars, uploadVars, threadVars, auxVars>>

\* trainer.py lines 372-467: retention, then the base-model update, which
\* ends in the handler of line 463 before any upload (line 388 uses the
\* module io, which trainer.py does not import), then the version is returned.
CycleFinish(t) ==
    /\ cycles[t].pc = "clean"
    /\ blobs' = AfterReturn(t, clean_old_models_dropbox(blobs, MAX_MODELS_TO_KEEP))
    /\ cycles' = End(t, "done")
    /\ db_lock' = ReleaseLock(t)
    /\ UNCHANGED <<uploaded_models, model_versions, ensemble_models,
                   local_files, clock, awaiting, ingestVars, tokenVars, syncVars,
                   sweepVars, retrainVars,
                   baseVars, uploadVars, threadVars, auxVars>>

\* trainer.py lines 469-471: an exception of a store or disk operation
\* (sqlite3.OperationalError, OSError) ends the cycle in the handler, which
\* logs it and returns the current version
ErrorPoints == {"mark", "ensrow", "incorporate", "failmark", "save"}

CycleError(t) ==
    /\ cycles[t].pc \in ErrorPoints
    /\ cycles' = End(t, "failed")
    /\ db_lock' = ReleaseLock(t)
    /\ blobs' = AfterReturn(t, blobs)
    /\ UNCHANGED <<uploaded_models, model_versions, ensemble_models,
                   local_files, clock, awaiting, ingestVars, tokenVars, syncVars,
                   sweepVars, retrainVars,
                   baseVars, uploadVars, threadVars, auxVars>>

CycleStep(t) ==
    \/ CycleInsufficient(t)
    \/ CycleTrain(t)
    \/ CycleGetPending(t)
    \/ CycleMarkProcessing(t)
    \/ CycleCreateEnsemble(t)
    \/ CycleInsertEnsemble(t)
    \/ CycleIncorporate(t)
    \/ CycleMarkFailed(t)
    \/ CycleSave(t)
    \/ CycleUploadArtifact(t)
    \/ CycleInsertVersion(t)
    \/ CycleFinish(t)
    \/ CycleError(t)


---------------------------------------------------------------------------
(* Initial values of the subsystems *)

\* app.py lines 141-176: when the base model is found in the blob store the
\* seed row '1.0.0' is inserted at startup
SeedRow == [version |-> SeedVersion, path |-> "dropbox", created_at |-> 0]

OrchInit ==
    /\ uploaded_models = <<>>
    /\ \E base_model_found \in BOOLEAN :
          /\ model_versions = IF base_model_found THEN {SeedRow} ELSE {}
          /\ blobs = IF base_model_found THEN {SeedVersion} ELSE {}
    /\ ensemble_models = {}
    /\ local_files = {}
    /\ db_lock = {}
    /\ awaiting = {}
    /\ cycles = [t \in Cycles |-> IdleCycle]


---------------------------------------------------------------------------
(* Ingest: db_helpers.py store_interactions, called by app.py collect_data *)
(* while db_lock is held, so that the calls run one after the other        *)

NoRow == [present |-> FALSE]
InteractionIds == {"i1", "i2"}
NoFeedback == 0      \* the interaction carries no (truthy) feedback

\* An interaction of a request: one without feedback, or one with a rating.
\* fault = "feedback" is a truthy feedback that is no dict: the interaction is
\* inserted, then interaction['feedback'].get raises (line 318).
Items ==
    {[id |-> i, msg |-> "hello", rating |-> NoFeedback, fault |-> "ok"] :
        i \in InteractionIds}
    \cup {[id |-> i, msg |-> "bye", rating |-> 5, fault |-> f] :
        i \in InteractionIds, f \in {"ok", "feedback"}}

RECURSIVE SeqsUpTo(_, _)
SeqsUpTo(S, n) ==
    IF n = 0 THEN {<<>>}
    ELSE LET shorter == SeqsUpTo(S, n - 1)
         IN  shorter \cup {Append(q, x) : q \in {w \in shorter : Len(w) = n - 1},
                                          x \in S}

Batches == SeqsUpTo(Items, MaxBatch)

\* INSERT OR REPLACE INTO interactions: the row with this id is deleted and a
\* new one inserted; created_at is not in the column list and takes its
\* default CURRENT_TIMESTAMP
InsertOrReplaceInteraction(tab, it, now) ==
    [tab EXCEPT ![it.id] = [present |-> TRUE, msg |-> it.msg, created_at |-> now]]

\* INSERT OR REPLACE INTO feedback, executed only for a truthy feedback
InsertOrReplaceFeedback(tab, it, now) ==
    IF it.rating = NoFeedback THEN tab
    ELSE [tab EXCEPT ![it.id] = [present |-> TRUE, rating |-> it.rating,
                                 created_at |-> now]]

\* A handler that commits what it wrote before it raises
CommitWritten(committed, written) == written

\* lines 331-334: conn.rollback() drops the rows the transaction wrote
RollbackInteractions(committed, written) == committed

\* resubmit: the request repeats the batch of the request that returned just
\* before it
IngestIdle == [pc |-> "idle", batch |-> <<>>, next |-> 1, resubmit |-> FALSE,
               txI |-> [i \in InteractionIds |-> NoRow],
               txF |-> [i \in InteractionIds |-> NoRow]]

IngestInit ==
    /\ interactions = [i \in InteractionIds |-> NoRow]
    /\ feedback = [i \in InteractionIds |-> NoRow]
    /\ ingest = IngestIdle

\* The ids of a batch
IdsOf(b) == {b[k].id : k \in 1..Len(b)}

\* The files interactions_<deviceId>_<int(time.time())>.json of one device
NoDataFile == [present |-> FALSE, ids |-> {}, table_columns |-> FALSE]

DataIdle ==
    /\ user_data = [s \in 1..MaxClock |-> NoDataFile]
    /\ dataset = {}

\* dropbox_user_data.py store_interactions_to_dropbox, lines 56-129: the
\* request's JSON is written as it came, overwriting the file of the same
\* second; every failure is logged and False is returned.  table_columns:
\* the interactions of the request carry the table's column names
\* (device_id, user_message, ...) besides the API's keys
store_interactions_to_dropbox(files, b, table_columns, now, blob_ok) ==
    IF blob_ok
    THEN [files EXCEPT ![now] = [present |-> TRUE, ids |-> IdsOf(b),
                                 table_columns |-> table_columns]]
    ELSE files

\* lines 277-294: a request arrives, its batch is mirrored to user_data/
\* when the blob store is enabled, and BEGIN TRANSACTION is executed
StoreInteractionsBegin(BatchSet, DROPBOX_ENABLED) ==
    /\ ingest.pc \in {"idle", "returned", "raised"}
    /\ \E b \in BatchSet, table_columns \in BOOLEAN, blob_ok \in BOOLEAN :
          /\ ingest' = [ingest EXCEPT !.pc = "writing", !.batch = b, !.next = 1,
                                      !.resubmit = (ingest.pc = "returned"
                                                    /\ b = ingest.batch),
                                      !.txI = interactions, !.txF = feedback]
          /\ user_data' = IF DROPBOX_ENABLED
                          THEN store_interactions_to_dropbox(
                                   user_data, b, table_columns, clock, blob_ok)
                          ELSE user_data
    /\ UNCHANGED <<interactions, feedback, clock, orchVars, tokenVars, syncVars,
                   sweepVars, retrainVars,
                   baseVars, uploadVars, threadVars, saveVars, connVars,
                   refVars, dataset, authVars, lockVars, streamVars>>

\* A deployment on the local store only
IngestBegin == StoreInteractionsBegin(Batches, FALSE)

\* A deployment with the blob store; its requests carry at most one
\* interaction
MirroredBatches == SeqsUpTo(Items, 1)

IngestBeginMirrored == StoreInteractionsBegin(MirroredBatches, TRUE)

\* lines 296-325: one iteration of the loop, inside the transaction; an
\* exception goes to lines 331-334, which roll back and raise
IngestRow ==
    /\ ingest.pc = "writing"
    /\ ingest.next <= Len(ingest.batch)
    /\ LET it == ingest.batch[ingest.next]
           txI1 == InsertOrReplaceInteraction(ingest.txI, it, clock)
           txF1 == InsertOrReplaceFeedback(ingest.txF, it, clock)
       IN  IF it.fault = "ok"
           THEN /\ ingest' = [ingest EXCEPT !.txI = txI1, !.txF = txF1,
                                            !.next = ingest.next + 1]
                /\ UNCHANGED <<interactions, feedback>>
           ELSE /\ interactions' = RollbackInteractions(interactions, txI1)
                /\ feedback' = feedback
                /\ ingest' = [ingest EXCEPT !.pc = "raised",
                                            !.txI = interactions',
                                            !.txF = feedback]
    /\ UNCHANGED <<clock, orchVars, tokenVars, syncVars,
                   sweepVars, retrainVars,
                   baseVars, uploadVars, threadVars, auxVars>>

\* lines 327-329: conn.commit() makes the rows of the batch visible together
IngestCommit ==
    /\ ingest.pc = "writing"
    /\ ingest.next > Len(ingest.batch)
    /\ interactions' = ingest.txI
    /\ feedback' = ingest.txF
    /\ ingest' = [ingest EXCEPT !.pc = "returned"]
    /\ UNCHANGED <<clock, orchVars, tokenVars, syncVars,
                   sweepVars, retrainVars,
                   baseVars, uploadVars, threadVars, auxVars>>

\* trainer.py prepare_training_data, lines 199-244: the committed
\* interactions are read; the interactions of the user_data files are added
\* (deduplicated by id) when the frame built from them has every required
\* column, which it has as soon as one interaction of one file carries the
\* table's column names; a failure to load them is logged
PrepareTrainingData ==
    /\ \E load_ok \in BOOLEAN :
          LET stored == {i \in InteractionIds : interactions[i].present}
              files == {s \in 1..MaxClock : user_data[s].present}
              mirrored == UNION {user_data[s].ids : s \in files}
              required_columns ==
                  \E s \in files : /\ user_data[s].table_columns
                                   /\ user_data[s].ids # {}
          IN  dataset' = IF load_ok /\ required_columns
                         THEN stored \cup mirrored
                         ELSE stored
    /\ UNCHANGED <<ingestVars, clock, orchVars, tokenVars, syncVars,
                   sweepVars, retrainVars,
                   baseVars, uploadVars, threadVars, saveVars, connVars,
                   refVars, user_data, authVars, lockVars, streamVars>>

\* CURRENT_TIMESTAMP has a resolution of one second: the clock moves between
\* requests
IngestTick ==
    /\ ingest.pc # "writing"
    /\ Tick

---------------------------------------------------------------------------
(* Token manager: utils/token_manager.py *)

NoToken == 0         \* access_token is None
NoExpiry == -1       \* expiry_time is None
NoFile == [exists |-> FALSE]

\* The process starts long after the epoch: time.time() minus the initial
\* last_refresh_attempt of 0 exceeds the cooldown
TokenEpoch == 10 * refresh_cooldown
TickSteps == {refresh_cooldown \div 2, refresh_threshold_seconds}

\* What the token endpoint can answer: 200 with or without expires_in, a
\* non-200 status, or no answer (requests raises)
ExpiresIn == {240, 14400}
Responses ==
    {[status |-> 200, has_expires_in |-> h, expires_in |-> e] :
        h \in BOOLEAN, e \in ExpiresIn}
    \cup {[status |-> 401, has_expires_in |-> FALSE, expires_in |-> 240],
          [status |-> 0, has_expires_in |-> FALSE, expires_in |-> 240]}

\* _should_refresh, lines 167-203
ShouldRefresh(m, now) ==
    IF m.access_token = NoToken /\ m.refresh_token THEN TRUE
    ELSE IF m.expiry_time # NoExpiry
            /\ (m.expiry_time <= now
                \/ m.expiry_time - now <= refresh_threshold_seconds)
         THEN TRUE
    ELSE m.access_token # NoToken /\ m.refresh_token /\ m.expiry_time = NoExpiry

\* _save_tokens, lines 133-165
SaveTokens(m) ==
    [m EXCEPT !.file = [exists |-> TRUE, access_token |-> m.access_token,
                        expiry_time |-> m.expiry_time]]

\* A refresh that drops the token it could not renew
RefreshAccessTokenClearing(m, now, resp, issued) ==
    IF resp.status # 200
    THEN [tm |-> SaveTokens([m EXCEPT !.access_token = NoToken,
                                      !.expiry_time = NoExpiry]),
          result |-> FALSE, posted |-> TRUE, issued |-> issued]
    ELSE [tm |-> SaveTokens(
                    [m EXCEPT !.access_token = issued + 1,
                              !.expiry_time = IF resp.has_expires_in
                                              THEN now + resp.expires_in
                                              ELSE m.expiry_time]),
          result |-> TRUE, posted |-> TRUE, issued |-> issued + 1]

\* _refresh_access_token, lines 236-278; issued is the number of tokens the
\* endpoint has handed out, the next one is a new string
RefreshAccessToken(m, now, resp, issued) ==
    IF resp.status # 200
    THEN [tm |-> m, result |-> FALSE, posted |-> TRUE, issued |-> issued]
    ELSE [tm |-> SaveTokens(
                    [m EXCEPT !.access_token = issued + 1,
                              !.expiry_time = IF resp.has_expires_in
                                              THEN now + resp.expires_in
                                              ELSE m.expiry_time]),
          result |-> TRUE, posted |-> TRUE, issued |-> issued + 1]

\* A manager without the cooldown check
NoCooldown(m, now) == TRUE

\* refresh_token_if_needed, lines 205-234
CooldownElapsed(m, now) == ~(now - m.last_refresh_attempt < refresh_cooldown)

RefreshTokenIfNeeded(m, now, resp, issued) ==
    IF ~CooldownElapsed(m, now)
    THEN [tm |-> m, result |-> FALSE, posted |-> FALSE, issued |-> issued]
    ELSE LET m1 == [m EXCEPT !.last_refresh_attempt = now]
         IN  IF ~ShouldRefresh(m1, now)
             THEN [tm |-> m1, result |-> TRUE, posted |-> FALSE, issued |-> issued]
             ELSE IF ~m1.refresh_token \/ ~m1.has_app_credentials
             THEN [tm |-> m1, result |-> FALSE, posted |-> FALSE, issued |-> issued]
             ELSE RefreshAccessToken(m1, now, resp, issued)

\* get_valid_access_token, lines 280-291: the token field is returned
\* whatever the refresh did
GetValidAccessTokenResult(m) == m.access_token

\* Fields after __init__ has read the configuration and the token file
TokenInit ==
    /\ \E a \in {NoToken, 1}, r \in BOOLEAN, k \in BOOLEAN, auto \in BOOLEAN,
          e \in {NoExpiry, TokenEpoch - 1, TokenEpoch + refresh_threshold_seconds,
                 TokenEpoch + 2 * refresh_threshold_seconds} :
          /\ (a = NoToken => e = NoExpiry)
          /\ tm = [access_token |-> a, refresh_token |-> r,
                   has_app_credentials |-> k, expiry_time |-> e,
                   last_refresh_attempt |-> 0, auto_refresh |-> auto,
                   file |-> IF a = NoToken THEN NoFile
                            ELSE [exists |-> TRUE, access_token |-> a,
                                  expiry_time |-> e]]
          /\ tok = [op |-> "none", at |-> 0, ret |-> NoToken, result |-> FALSE,
                    posted |-> FALSE, cooldown_elapsed |-> FALSE,
                    issued |-> a]

TokenCall(op, resp) ==
    LET wanted == op = "refresh_token_if_needed"
                  \/ (tm.auto_refresh /\ ShouldRefresh(tm, clock))
        r == IF wanted THEN RefreshTokenIfNeeded(tm, clock, resp, tok.issued)
             ELSE [tm |-> tm, result |-> TRUE, posted |-> FALSE,
                   issued |-> tok.issued]
    IN  /\ r.issued <= MaxIssued
        /\ tm' = r.tm
        /\ tok' = [op |-> op, at |-> clock,
                   ret |-> IF op = "get_valid_access_token"
                           THEN GetValidAccessTokenResult(r.tm) ELSE NoToken,
                   result |-> r.result, posted |-> r.posted,
                   cooldown_elapsed |-> CooldownElapsed(tm, clock),
                   issued |-> r.issued]

GetValidAccessToken ==
    /\ \E resp \in Responses : TokenCall("get_valid_access_token", resp)
    /\ UNCHANGED <<clock, orchVars, ingestVars, syncVars,
                   sweepVars, retrainVars,
                   baseVars, uploadVars, threadVars, auxVars>>

RefreshTokenIfNeededCall ==
    /\ \E resp \in Responses : TokenCall("refresh_token_if_needed", resp)
    /\ UNCHANGED <<clock, orchVars, ingestVars, syncVars,
                   sweepVars, retrainVars,
                   baseVars, uploadVars, threadVars, auxVars>>

TokenTick ==
    /\ \E d \in TickSteps :
          /\ clock + d <= TokenEpoch + MaxElapsed
          /\ clock' = clock + d
    /\ UNCHANGED <<tm, tok, orchVars, ingestVars, syncVars,
                   sweepVars, retrainVars,
                   baseVars, uploadVars, threadVars, auxVars>>

---------------------------------------------------------------------------
(* Blob store client (utils/dropbox_storage.py) and DB snapshot sync      *)
(* (utils/memory_db.py, utils/db_helpers.py get_connection)               *)

NoPush == -1         \* no snapshot has been pushed

\* time.time() is far from the initial _last_db_sync_time of 0
SyncEpoch == 10 * DROPBOX_DB_SYNC_INTERVAL
SyncSteps == {DROPBOX_DB_SYNC_INTERVAL \div 2}

\* A snapshot of revision rev reaches the blob store at time now
Pushed(s, now) ==
    [s EXCEPT !.pushed = s.rev, !.prev_push = s.last_push, !.last_push = now]

\* memory_db.py sync_memory_db_to_dropbox, lines 132-189
sync_memory_db_to_dropbox(s, now, upload_ok) ==
    IF now - s.last_db_sync_time < DROPBOX_DB_SYNC_INTERVAL
    THEN [s EXCEPT !.skipped = TRUE]
    ELSE IF upload_ok
         THEN [Pushed(s, now) EXCEPT !.last_db_sync_time = now,
                                     !.skipped = FALSE]
         ELSE s

\* dropbox_storage.py upload_db, lines 578-603, as get_connection calls it
\* (db_helpers.py lines 135-141): no condition on the time of the last push
upload_db(s, now, upload_ok) ==
    IF upload_ok THEN Pushed(s, now) ELSE s

\* The operations of DropboxStorage share one shape: the SDK call is made
\* inside try, and "except Exception" logs and returns the failure value
\* (upload_model 656-725, get_model_stream 781-802, download_model_to_memory
\* 804-858, list_models 906-943, delete_model 962-974, upload_db 589-603)
BlobOps == {"upload_model", "get_model_stream", "download_model_to_memory",
            "list_models", "delete_model", "upload_db"}
Answers == {"ok", "expired_access_token", "error"}

BlobCall(op, answer) ==
    [op |-> op, first_answer |-> answer, attempts |-> 1, refreshes |-> 0,
     success |-> answer = "ok"]

NoBlobCall == [op |-> "none", first_answer |-> "ok", attempts |-> 0,
               refreshes |-> 0, success |-> FALSE]

\* app.py lines 104-118 and memory_db.py init_memory_db: the process serves
\* its store from the file that get_connection opens, or from the in-memory
\* database; a snapshot downloaded at start sets _last_db_sync_time
SyncInit ==
    /\ \E mode \in {"file", "memory"}, loaded \in BOOLEAN :
          sync = [mode |-> mode, rev |-> 0, pushed |-> 0,
                  last_db_sync_time |-> IF mode = "memory" /\ loaded
                                        THEN SyncEpoch ELSE 0,
                  prev_push |-> NoPush, last_push |-> NoPush,
                  skipped |-> FALSE]
    /\ bop = NoBlobCall

SyncIdle ==
    /\ sync = [mode |-> "file", rev |-> 0, pushed |-> 0,
               last_db_sync_time |-> 0, prev_push |-> NoPush,
               last_push |-> NoPush, skipped |-> FALSE]
    /\ bop = NoBlobCall

\* db_helpers.py get_connection, lines 93-169: the caller's block runs (and
\* may commit), then the database file is uploaded
StoreUse ==
    /\ sync.mode = "file"
    /\ \E write \in BOOLEAN, upload_ok \in BOOLEAN :
          /\ write => sync.rev < MaxWrites
          /\ sync' = upload_db([sync EXCEPT !.rev = IF write THEN @ + 1 ELSE @],
                               clock, upload_ok)
    /\ UNCHANGED <<bop, clock, orchVars, ingestVars, tokenVars, sweepVars, retrainVars,
                   baseVars, uploadVars, threadVars, auxVars>>

\* memory_db.py commit_memory_db_copy, lines 223-243
CommitMemoryDbCopy ==
    /\ sync.mode = "memory"
    /\ sync.rev < MaxWrites
    /\ \E upload_ok \in BOOLEAN :
          sync' = sync_memory_db_to_dropbox([sync EXCEPT !.rev = @ + 1],
                                            clock, upload_ok)
    /\ UNCHANGED <<bop, clock, orchVars, ingestVars, tokenVars, sweepVars, retrainVars,
                   baseVars, uploadVars, threadVars, auxVars>>

\* a request to a blob store operation
BlobOperation ==
    /\ \E op \in BlobOps, answer \in Answers : bop' = BlobCall(op, answer)
    /\ UNCHANGED <<sync, clock, orchVars, ingestVars, tokenVars, sweepVars, retrainVars,
                   baseVars, uploadVars, threadVars, auxVars>>

SyncTick ==
    /\ \E d \in SyncSteps :
          /\ clock + d <= SyncEpoch + MaxSyncElapsed
          /\ clock' = clock + d
    /\ UNCHANGED <<sync, bop, orchVars, ingestVars, tokenVars, sweepVars, retrainVars,
                   baseVars, uploadVars, threadVars, auxVars>>

---------------------------------------------------------------------------
(* Retention of model artifacts (learning/trainer_dropbox.py)             *)

NotANumber == -1     \* a last version segment that int() rejects

\* An object name of the models folder: whether it has the shape
\* model_<version>.mlmodel, and the dot-separated segments of <version>
ModelName(version) == [model_file |-> TRUE, version |-> version]
BASE_MODEL_NAME == ModelName(<<1, 0, 0>>)
VersionName(ts) == ModelName(<<1, 0, ts>>)
OddName == ModelName(<<1, 0, NotANumber>>)
UploadName == [model_file |-> FALSE, version |-> <<1, 0, 1>>]
BaseModelObject == "base_model/model_1.0.0.mlmodel"

Stamps == 1..MaxStamp
KeepCounts == {-1, 0, 2, MAX_MODELS_TO_KEEP}

\* int(version.split(".")[-1])
Timestamp(name) == name.version[Len(name.version)]

\* trainer_dropbox.py lines 28-51: the names of the listing that take part in
\* the sweep, the base model and the names with no integer timestamp left out
ModelFilesWithBase(listing) ==
    {m \in listing : m.model_file /\ Timestamp(m) # NotANumber}

model_files(listing) ==
    {m \in listing : /\ m.model_file
                     /\ m # BASE_MODEL_NAME
                     /\ Timestamp(m) # NotANumber}

\* model_files[keep_newest:] of a list of n entries
SliceStart(n, keep_newest) ==
    IF keep_newest >= 0 THEN keep_newest
    ELSE IF n + keep_newest > 0 THEN n + keep_newest ELSE 0

\* trainer_dropbox.py lines 53-63: sorted newest first, all after the first
\* keep_newest
models_to_delete(files, keep_newest) ==
    IF Cardinality(files) <= keep_newest THEN {}
    ELSE {m \in files :
            Cardinality({o \in files : Timestamp(o) > Timestamp(m)})
                >= SliceStart(Cardinality(files), keep_newest)}

NoSweep == [keep_newest |-> 0, unlisted |-> {}, model_files |-> {},
            models_to_delete |-> {}, failed |-> {}]

\* The calls of one sweep that the blob store can fail
Faults(S) == {F \in SUBSET S : Cardinality(F) <= MaxFaults}

SweepInit ==
    /\ models_folder \in SUBSET {BASE_MODEL_NAME, OddName, UploadName}
    /\ base_model_folder = {BaseModelObject}
    /\ version_rows = {<<1, 0, 0>>}
    /\ sweep = NoSweep

SweepIdle ==
    /\ models_folder = {}
    /\ base_model_folder = {}
    /\ version_rows = {}
    /\ sweep = NoSweep

\* trainer.py train_new_model: a cycle uploads model_<version>.mlmodel and
\* stores the model_versions row; versions carry the time of the training
StoreTrainedModel ==
    /\ \E ts \in Stamps :
          /\ \E last \in version_rows :
                /\ \A v \in version_rows : v[Len(v)] <= last[Len(last)]
                /\ ts = last[Len(last)] + 1
          /\ models_folder' = models_folder \cup {VersionName(ts)}
          /\ version_rows' = version_rows \cup {<<1, 0, ts>>}
    /\ UNCHANGED <<base_model_folder, sweep, clock, orchVars, ingestVars,
                   tokenVars, syncVars, retrainVars,
                   baseVars, uploadVars, threadVars, auxVars>>

\* trainer_dropbox.py clean_old_models_dropbox, lines 13-77.  list_models
\* (dropbox_storage.py 906-943) leaves out every entry whose metadata or
\* shared-link call raises; delete_model (945-974) returns False when the
\* delete call raises.
CleanOldModelsDropbox ==
    \E keep_newest \in KeepCounts, unlisted \in Faults(models_folder) :
       LET files == model_files(models_folder \ unlisted)
           doomed == models_to_delete(files, keep_newest)
       IN  \E failed \in Faults(doomed) :
              /\ models_folder' = models_folder \ (doomed \ failed)
              /\ sweep' = [keep_newest |-> keep_newest,
                           unlisted |-> unlisted,
                           model_files |-> files,
                           models_to_delete |-> doomed,
                           failed |-> failed]
              /\ UNCHANGED <<base_model_folder, version_rows, clock, orchVars,
                             ingestVars, tokenVars, syncVars, retrainVars,
                   baseVars, uploadVars, threadVars, auxVars>>

---------------------------------------------------------------------------
(* The retraining decision (learning/trainer.py should_retrain)            *)

\* What a call can read: COUNT(*) of the pending uploads, whether
\* MAX(training_date) is NULL, the whole hours since that date and the
\* interactions created after it
PendingInputs == 0..(T_pending + 1)
HoursRead == {0, T_hours - 1, T_hours, T_hours + 1}
InteractionsRead == {0, T_interactions - 1, T_interactions}

NoRetrainCall == [called |-> FALSE, pending |-> 0, has_last_training |-> FALSE,
                  hours |-> 0, new_interactions |-> 0, result |-> FALSE]

RetrainIdle == retrain = NoRetrainCall

\* one call of should_retrain(db_path)
ShouldRetrainCall ==
    /\ \E pending \in PendingInputs, has_last_training \in BOOLEAN,
          hours \in HoursRead, new_interactions \in InteractionsRead :
          retrain' = [called |-> TRUE, pending |-> pending,
                      has_last_training |-> has_last_training,
                      hours |-> hours, new_interactions |-> new_interactions,
                      result |-> ShouldRetrainReason(pending, has_last_training,
                                    hours, new_interactions) # "none"]
    /\ UNCHANGED <<clock, orchVars, ingestVars, tokenVars, syncVars, sweepVars,
                   baseVars, uploadVars, threadVars, auxVars>>

---------------------------------------------------------------------------
(* The base model: its pointer blobs (learning/model_orchestrator.py       *)
(* update_base_model) and its in-memory cache (utils/model_download.py)    *)

NoBytes == -1        \* no object, no cached buffer, None returned
SeedBytes == 0       \* the content of model_1.0.0.mlmodel
Readers == {"r1", "r2"}

IdleReader == [pc |-> "idle", fetched |-> NoBytes, clears |-> 0,
               published |-> 0, result |-> NoBytes]

\* seed: model_1.0.0.mlmodel is in the models folder or in base_model/;
\* latest: the content of base_model/model_latest.mlmodel; published: the
\* last version a cycle stored; updated: the last version update_base_model
\* was called for; clears: the calls of clear_model_cache
BaseInit ==
    /\ \E seed \in BOOLEAN :
          base = [seed |-> seed, latest |-> NoBytes, published |-> 0,
                  updated |-> 0, clears |-> 0, pc |-> "idle"]
    /\ model_cache = NoBytes
    /\ readers = [r \in Readers |-> IdleReader]

BaseIdle ==
    /\ base = [seed |-> FALSE, latest |-> NoBytes, published |-> 0,
               updated |-> 0, clears |-> 0, pc |-> "idle"]
    /\ model_cache = NoBytes
    /\ readers = [r \in Readers |-> IdleReader]

\* model_download.py lines 31-37: the cache is looked up under
\* _model_cache_lock, a hit returns a copy
ReadCheck(r) ==
    /\ readers[r].pc \in {"idle", "done"}
    /\ readers' = [readers EXCEPT ![r] =
          IF model_cache # NoBytes
          THEN [IdleReader EXCEPT !.pc = "done", !.result = model_cache,
                                  !.published = base.published]
          ELSE [IdleReader EXCEPT !.pc = "download",
                                  !.published = base.published]]
    /\ UNCHANGED <<base, model_cache, clock, orchVars, ingestVars, tokenVars,
                   syncVars, sweepVars, retrainVars, uploadVars, threadVars, auxVars>>

\* lines 40-110, outside the lock: BASE_MODEL_NAME is fetched through
\* get_model_stream or download_model_to_memory, from the models folder or
\* from base_model/ (dropbox_storage.py 748-777, 829-846); None when every
\* way fails
ReadDownload(r) ==
    /\ readers[r].pc = "download"
    /\ \E download_ok \in BOOLEAN :
          readers' = [readers EXCEPT ![r] =
              IF download_ok /\ base.seed
              THEN [@ EXCEPT !.pc = "put", !.fetched = SeedBytes,
                             !.clears = base.clears]
              ELSE [@ EXCEPT !.pc = "done", !.result = NoBytes]]
    /\ UNCHANGED <<base, model_cache, clock, orchVars, ingestVars, tokenVars,
                   syncVars, sweepVars, retrainVars, uploadVars, threadVars, auxVars>>

\* lines 74-78 and 101-107: the downloaded bytes are put into the cache under
\* the lock and returned
ReadPut(r) ==
    /\ readers[r].pc = "put"
    /\ model_cache' = readers[r].fetched
    /\ readers' = [readers EXCEPT ![r].pc = "done",
                                  ![r].result = readers[r].fetched]
    /\ UNCHANGED <<base, clock, orchVars, ingestVars, tokenVars,
                   syncVars, sweepVars, retrainVars, uploadVars, threadVars, auxVars>>

\* trainer.py lines 361-369 and 379-463: the cycle has stored its version;
\* the base-model update that follows builds io.BytesIO at line 388, and
\* trainer.py does not import io: the NameError (or, without the CoreML
\* file, the branch of line 459) ends the update before update_base_model is
\* called
TrainNewModelBaseUpdate ==
    /\ base.pc = "idle"
    /\ base.published < MaxPublishes
    /\ base' = [base EXCEPT !.published = @ + 1]
    /\ UNCHANGED <<model_cache, readers, clock, orchVars, ingestVars,
                   tokenVars, syncVars, sweepVars, retrainVars, uploadVars,
                   threadVars, auxVars>>

\* model_orchestrator.py update_base_model, lines 40-52, the module's public
\* entry point, called for the version last published (trainer.py line 391
\* is its one call site, and the cycle does not reach it):
\* model_latest.mlmodel is uploaded to base_model/, or False is returned
UpdateBaseModelLatest ==
    /\ base.pc = "idle"
    /\ base.updated < base.published
    /\ \E upload_ok \in BOOLEAN :
          base' = IF upload_ok
                  THEN [base EXCEPT !.latest = base.published,
                                    !.updated = base.published,
                                    !.pc = "versioned"]
                  ELSE [base EXCEPT !.updated = base.published]
    /\ UNCHANGED <<model_cache, readers, clock, orchVars, ingestVars,
                   tokenVars, syncVars, sweepVars, retrainVars, uploadVars,
                   threadVars, auxVars>>

\* lines 54-66: the versioned copy; its failure is only logged
UpdateBaseModelVersioned ==
    /\ base.pc = "versioned"
    /\ base' = [base EXCEPT !.pc = "clear"]
    /\ UNCHANGED <<model_cache, readers, clock, orchVars, ingestVars,
                   tokenVars, syncVars, sweepVars, retrainVars, uploadVars,
                   threadVars, auxVars>>

\* lines 70-80 and model_download.py clear_model_cache, lines 140-148
ClearModelCache ==
    /\ base.pc = "clear"
    /\ model_cache' = NoBytes
    /\ base' = [base EXCEPT !.pc = "idle", !.clears = @ + 1]
    /\ UNCHANGED <<readers, clock, orchVars, ingestVars, tokenVars,
                   syncVars, sweepVars, retrainVars, uploadVars, threadVars, auxVars>>

---------------------------------------------------------------------------
(* The upload handler's checks (app.py upload_model, lines 260-346)        *)

MAX_UPLOAD_SIZE_MB == 600
SizesMB == {0, 1, MAX_UPLOAD_SIZE_MB, MAX_UPLOAD_SIZE_MB + 1,
            2 * MAX_UPLOAD_SIZE_MB}
Filenames == {"", "model.mlmodel", "model.zip"}

NoRequest == [handled |-> FALSE, has_file |-> FALSE, filename |-> "",
              size_mb |-> 0, upload_ok |-> FALSE, store_ok |-> FALSE,
              status |-> 0, blob |-> FALSE, row |-> FALSE]

UploadIdle == req = NoRequest

\* the response of the handler and what it has created by then
upload_model(has_file, filename, size_mb, upload_ok, store_ok) ==
    IF ~has_file THEN [status |-> 400, blob |-> FALSE, row |-> FALSE]
    ELSE IF filename = "" THEN [status |-> 400, blob |-> FALSE, row |-> FALSE]
    ELSE IF filename # "model.mlmodel"
         THEN [status |-> 400, blob |-> FALSE, row |-> FALSE]
    ELSE IF ~upload_ok THEN [status |-> 500, blob |-> FALSE, row |-> FALSE]
    ELSE IF ~store_ok THEN [status |-> 500, blob |-> TRUE, row |-> FALSE]
    ELSE [status |-> 200, blob |-> TRUE, row |-> TRUE]

UploadRequest ==
    /\ \E has_file \in BOOLEAN, filename \in Filenames, size_mb \in SizesMB,
          upload_ok \in BOOLEAN, store_ok \in BOOLEAN :
          LET out == upload_model(has_file, filename, size_mb, upload_ok,
                                  store_ok)
          IN  req' = [handled |-> TRUE, has_file |-> has_file,
                      filename |-> filename, size_mb |-> size_mb,
                      upload_ok |-> upload_ok, store_ok |-> store_ok,
                      status |-> out.status, blob |-> out.blob,
                      row |-> out.row]
    /\ UNCHANGED <<clock, orchVars, ingestVars, tokenVars, syncVars,
                   sweepVars, retrainVars, baseVars, threadVars, auxVars>>

---------------------------------------------------------------------------
(* Threads of one process inside TokenManager.get_valid_access_token       *)

Threads == {"t1", "t2"}
IdleThread == [pc |-> "idle", current_time |-> 0]

ThreadIdle ==
    /\ thr = [h \in Threads |-> IdleThread]
    /\ posts = <<>>

\* A manager with all its credentials whose access token is missing or past
\* its expiry, so that every caller finds that a refresh is needed
ThreadInit ==
    /\ \E a \in {NoToken, 1} :
          /\ tm = [access_token |-> a, refresh_token |-> TRUE,
                   has_app_credentials |-> TRUE,
                   expiry_time |-> IF a = NoToken THEN NoExpiry
                                   ELSE TokenEpoch - 1,
                   last_refresh_attempt |-> 0, auto_refresh |-> TRUE,
                   file |-> IF a = NoToken THEN NoFile
                            ELSE [exists |-> TRUE, access_token |-> a,
                                  expiry_time |-> TokenEpoch - 1]]
          /\ tok = [op |-> "none", at |-> 0, ret |-> NoToken, result |-> FALSE,
                    posted |-> FALSE, cooldown_elapsed |-> FALSE,
                    issued |-> a]
    /\ thr = [h \in Threads |-> IdleThread]
    /\ posts = <<>>

\* token_manager.py lines 288-289
ThreadCall(h) ==
    /\ thr[h].pc = "idle"
    /\ tm.auto_refresh /\ ShouldRefresh(tm, clock)
    /\ thr' = [thr EXCEPT ![h].pc = "cooldown"]
    /\ UNCHANGED <<tm, tok, posts, clock, orchVars, ingestVars, syncVars,
                   sweepVars, retrainVars, baseVars, uploadVars, auxVars>>

\* lines 213-216: the cooldown is checked against last_refresh_attempt
ThreadCooldown(h) ==
    /\ thr[h].pc = "cooldown"
    /\ thr' = [thr EXCEPT ![h] =
                  IF CooldownElapsed(tm, clock)
                  THEN [pc |-> "stamp", current_time |-> clock]
                  ELSE IdleThread]
    /\ UNCHANGED <<tm, tok, posts, clock, orchVars, ingestVars, syncVars,
                   sweepVars, retrainVars, baseVars, uploadVars, auxVars>>

\* lines 218-231: last_refresh_attempt is written, then the need for a
\* refresh and the credentials are checked
ThreadStamp(h) ==
    /\ thr[h].pc = "stamp"
    /\ tm' = [tm EXCEPT !.last_refresh_attempt = thr[h].current_time]
    /\ thr' = [thr EXCEPT ![h] =
                  IF ShouldRefresh(tm, clock) /\ tm.refresh_token
                     /\ tm.has_app_credentials
                  THEN [@ EXCEPT !.pc = "post"]
                  ELSE IdleThread]
    /\ UNCHANGED <<tok, posts, clock, orchVars, ingestVars, syncVars,
                   sweepVars, retrainVars, baseVars, uploadVars, auxVars>>

\* line 234 and _refresh_access_token, lines 236-278: the request is sent
\* and its answer handled; the access token is returned to the caller
ThreadPost(h) ==
    /\ thr[h].pc = "post"
    /\ Len(posts) < MaxPosts
    /\ \E resp \in Responses :
          tm' = RefreshAccessToken(tm, clock, resp, Len(posts)).tm
    /\ posts' = Append(posts, thr[h].current_time)
    /\ thr' = [thr EXCEPT ![h] = IdleThread]
    /\ UNCHANGED <<tok, clock, orchVars, ingestVars, syncVars,
                   sweepVars, retrainVars, baseVars, uploadVars, auxVars>>

ThreadTick ==
    /\ clock + refresh_cooldown \div 2 <= TokenEpoch + MaxThreadElapsed
    /\ clock' = clock + refresh_cooldown \div 2
    /\ UNCHANGED <<tm, tok, thr, posts, orchVars, ingestVars, syncVars,
                   sweepVars, retrainVars, baseVars, uploadVars, auxVars>>

---------------------------------------------------------------------------
(* The token file (utils/token_manager.py _save_tokens, _load_tokens)      *)

MaxRestarts == 2     \* restarts of the process while the file is observed

NoTokenFile == [exists |-> FALSE, gen |-> 0, complete |-> FALSE]

\* mem: the token state in memory (0: none, the configuration's values);
\* issued: the token states the endpoint has handed out; loaded: what the
\* last _load_tokens did
SaveInit ==
    /\ \E present \in BOOLEAN :
          /\ tfile = IF present
                     THEN [exists |-> TRUE, gen |-> 1, complete |-> TRUE]
                     ELSE NoTokenFile
          /\ saver = [pc |-> "down", mem |-> 0,
                      issued |-> IF present THEN 1 ELSE 0,
                      restarts |-> 0, loaded |-> "none"]

SaveIdle ==
    /\ tfile = NoTokenFile
    /\ saver = [pc |-> "down", mem |-> 0, issued |-> 0, restarts |-> 0,
                loaded |-> "none"]

\* __init__ line 70 and _load_tokens, lines 114-131: json.load of a file
\* that is not a complete document raises, the exception is logged and the
\* fields keep the configuration's values
LoadTokens ==
    /\ saver.pc = "down"
    /\ saver' = [saver EXCEPT
          !.pc = "run",
          !.mem = IF tfile.exists /\ tfile.complete THEN tfile.gen ELSE 0,
          !.loaded = IF ~tfile.exists THEN "nofile"
                     ELSE IF tfile.complete THEN "file" ELSE "error"]
    /\ UNCHANGED <<tfile, clock, coreVars, connVars, refVars, dataVars, authVars, lockVars, streamVars>>

\* _refresh_access_token lines 262-271 and _save_tokens lines 135-144: the
\* new token state is in memory and open(tokens_file, 'w') truncates the file
\* in place; when open raises the exception is logged (line 164)
SaveTokensOpen ==
    /\ saver.pc = "run"
    /\ saver.issued < MaxIssued + 1
    /\ \E open_ok \in BOOLEAN :
          /\ saver' = [saver EXCEPT !.mem = saver.issued + 1,
                                    !.issued = saver.issued + 1,
                                    !.pc = IF open_ok THEN "opened" ELSE "run"]
          /\ tfile' = IF open_ok
                      THEN [exists |-> TRUE, gen |-> saver.issued + 1,
                            complete |-> FALSE]
                      ELSE tfile
    /\ UNCHANGED <<clock, coreVars, connVars, refVars, dataVars, authVars, lockVars, streamVars>>

\* lines 144-145: json.dump writes the document and the with block closes
\* the file; when a write raises (disk full) the file is closed as it is
SaveTokensDump ==
    /\ saver.pc = "opened"
    /\ \E dump_ok \in BOOLEAN :
          tfile' = [tfile EXCEPT !.complete = dump_ok]
    /\ saver' = [saver EXCEPT !.pc = "run"]
    /\ UNCHANGED <<clock, coreVars, connVars, refVars, dataVars, authVars, lockVars, streamVars>>

\* The process is killed, at any point of a save or between saves
SaveCrash ==
    /\ saver.pc \in {"run", "opened"}
    /\ saver.restarts < MaxRestarts
    /\ saver' = [saver EXCEPT !.pc = "down", !.mem = 0,
                              !.restarts = @ + 1]
    /\ UNCHANGED <<tfile, clock, coreVars, connVars, refVars, dataVars, authVars, lockVars, streamVars>>

---------------------------------------------------------------------------
(* The connection context manager (utils/db_helpers.py get_connection)     *)

MaxAttempts == 5     \* connections one call may open before the model stops
MaxCalls == 2        \* calls of get_connection in one behaviour
Retries == 3         \* get_connection line 126

ConnResults == {"ok", "locked", "error"}

\* attempts: connections opened; runs: executions of the with block's body;
\* yielded: the generator has handed out a connection; log: what each
\* connection and each body met; pushed: upload_db went through; outcome:
\* what the with statement ends with; busy: another connection holds the
\* database's write lock
NoConn == [pc |-> "idle", retries |-> 0, attempts |-> 0, runs |-> 0,
           locked |-> 0, yielded |-> FALSE, body_ok |-> FALSE,
           log |-> <<>>, pushed |-> FALSE, outcome |-> "none", calls |-> 0,
           busy |-> FALSE]

ConnIdle == conn = NoConn

\* A handler that forgets to count the attempt
OnLockedNoCount(retries) ==
    [retry |-> retries > 1, retries |-> retries]

\* lines 145-151: a lock error with retries left is counted and slept on,
\* every other one is raised
OnLocked(retries) ==
    [retry |-> retries > 1,
     retries |-> IF retries > 1 THEN retries - 1 ELSE retries]

\* lines 125-129: a call enters the retry loop
GetConnection ==
    /\ conn.pc \in {"idle", "done"}
    /\ conn.calls < MaxCalls
    /\ conn' = [NoConn EXCEPT !.pc = "connect", !.retries = Retries,
                              !.calls = conn.calls + 1,
                              !.busy = conn.busy]
    /\ UNCHANGED <<clock, coreVars, saveVars, refVars, dataVars, authVars, lockVars, streamVars>>

\* What the except clauses of lines 145-160 do with an exception that
\* reached them in state c
Handle(c, result) ==
    IF result = "locked" /\ OnLocked(c.retries).retry
    THEN [c EXCEPT !.retries = OnLocked(c.retries).retries,
                   !.locked = @ + 1,
                   !.pc = IF OnLocked(c.retries).retries > 0
                          THEN "connect" ELSE "done",
                   !.outcome = IF OnLocked(c.retries).retries > 0
                               THEN "none" ELSE "OperationalError"]
    ELSE [c EXCEPT !.locked = IF result = "locked" THEN @ + 1 ELSE @,
                   !.pc = "done",
                   !.outcome = IF result = "locked" THEN "OperationalError"
                               ELSE "Error"]

\* lines 130-134: sqlite3.connect, then the yield. A generator that yields
\* again after the body's exception was thrown into it makes
\* contextlib's __exit__ raise RuntimeError: the body does not run again
ConnConnect ==
    /\ conn.pc = "connect"
    /\ conn.attempts < MaxAttempts
    /\ \E result \in ConnResults :
          /\ result = "locked" => conn.busy
          /\ LET c == [conn EXCEPT !.attempts = @ + 1,
                                !.log = Append(@, result)]
             IN  conn' = IF result = "ok"
                         THEN IF c.yielded
                              THEN [c EXCEPT !.pc = "done",
                                             !.outcome = "RuntimeError"]
                              ELSE [c EXCEPT !.pc = "body", !.yielded = TRUE]
                         ELSE Handle(c, result)
    /\ UNCHANGED <<clock, coreVars, saveVars, refVars, dataVars, authVars, lockVars, streamVars>>

\* The with block's body (the store operation) and lines 136-144: after a
\* body without exception the snapshot is uploaded and the loop is left
ConnBody ==
    /\ conn.pc = "body"
    /\ \E result \in ConnResults, upload_ok \in BOOLEAN :
          /\ result = "locked" => conn.busy
          /\ LET c == [conn EXCEPT !.runs = @ + 1,
                                   !.log = Append(@, result)]
             IN  conn' = IF result = "ok"
                         THEN [c EXCEPT !.pc = "done", !.body_ok = TRUE,
                                        !.pushed = upload_ok,
                                        !.outcome = "ok"]
                         ELSE Handle(c, result)
    /\ UNCHANGED <<clock, coreVars, saveVars, refVars, dataVars, authVars, lockVars, streamVars>>

\* Another connection takes or releases the database's write lock
ConnOtherWriter ==
    /\ conn' = [conn EXCEPT !.busy = ~@]
    /\ UNCHANGED <<clock, coreVars, saveVars, refVars, dataVars, authVars, lockVars, streamVars>>

---------------------------------------------------------------------------
(* The upload handler's blob names (app.py upload_model, lines 288-319)    *)

MaxRequests == 3     \* upload requests in one behaviour
MaxRefClock == 3     \* the seconds the requests arrive in
NoContent == 0       \* no object under that name

DeviceIds == {"d1", "d2"}
RefSeconds == 1..MaxRefClock

\* lines 289-290: model_upload_<deviceId>_<int(timestamp)>.mlmodel
unique_filename(device_id, now) == <<device_id, now>>

RefInit ==
    /\ ublobs = [n \in DeviceIds \X RefSeconds |-> NoContent]
    /\ urows = <<>>
    /\ ureqs = 0

RefIdle == RefInit

\* One request: the content of request k is k.  dropbox_storage.py
\* upload_model, lines 697-705: files_upload with WriteMode.overwrite, then
\* the shared link, whose failure makes the call return success False after
\* the object was written; app.py lines 303-319: the row is stored only
\* after a successful call
UploadModelRef ==
    /\ ureqs < MaxRequests
    /\ \E device_id \in DeviceIds, upload_ok \in BOOLEAN,
          link_ok \in BOOLEAN, store_ok \in BOOLEAN :
          LET name == unique_filename(device_id, clock)
              content == ureqs + 1
          IN  /\ ublobs' = IF upload_ok
                           THEN [ublobs EXCEPT ![name] = content]
                           ELSE ublobs
              /\ urows' = IF upload_ok /\ link_ok /\ store_ok
                          THEN Append(urows, [blob_ref |-> name,
                                              content |-> content])
                          ELSE urows
    /\ ureqs' = ureqs + 1
    /\ UNCHANGED <<clock, coreVars, saveVars, connVars, dataVars, authVars, lockVars, streamVars>>

RefTick ==
    /\ clock < MaxRefClock
    /\ clock' = clock + 1
    /\ UNCHANGED <<ublobs, urows, ureqs, coreVars, saveVars, connVars, dataVars, authVars, lockVars, streamVars>>

---------------------------------------------------------------------------
(* Blob store authentication (utils/dropbox_storage.py, lines 93-386)      *)

MaxAuthAttempts == 8     \* authentication attempts after which the model stops
max_retries == 3         \* DropboxStorage.max_retries, config.DROPBOX_MAX_RETRIES

\* The token strings that matter: none, the configured access token, the
\* token the token manager holds, the legacy DROPBOX_API_KEY
Tokens == {"none", "access", "managed", "api_key"}
AuthOutcomes == {"ok", "expired_access_token", "auth_error", "error"}

\* manager: what get_valid_access_token returns; api_key: DROPBOX_API_KEY;
\* refresh_creds: refresh token, app key and app secret are all set;
\* attempts: calls of users_get_current_account; legacy: attempts made with
\* the legacy API key; dbx: the client last assigned to self.dbx
AuthIdle ==
    auth = [pc |-> "idle", access_token |-> "none", manager |-> "none",
            api_key |-> "none", refresh_creds |-> FALSE, auth_retries |-> 0,
            attempts |-> 0, legacy |-> 0, dbx |-> FALSE]

AuthInit ==
    \E a \in {"none", "access"}, m \in {"none", "access", "managed"},
       k \in {"access", "api_key"}, r \in BOOLEAN :
        auth = [pc |-> "start", access_token |-> a, manager |-> m,
                api_key |-> k, refresh_creds |-> r, auth_retries |-> 0,
                attempts |-> 0, legacy |-> 0, dbx |-> FALSE]

\* _authenticate, lines 100-108
Authenticate ==
    /\ auth.pc = "start"
    /\ auth' = [auth EXCEPT !.pc =
                  IF auth.access_token # "none" /\ auth.refresh_creds
                  THEN "refresh"
                  ELSE IF auth.access_token # "none" THEN "token"
                  ELSE "done"]
    /\ UNCHANGED <<clock, coreVars, saveVars, connVars, refVars, dataVars, lockVars, streamVars>>

\* _handle_auth_failure, lines 356-386, entered in state a: up to
\* max_retries the authentication is entered again; after that the legacy
\* API key replaces the access token if it differs from it, and
\* _authenticate_with_token is entered once more
HandleAuthFailure(a) ==
    LET b == [a EXCEPT !.auth_retries = @ + 1]
    IN  IF b.auth_retries <= max_retries
        THEN [b EXCEPT !.pc = IF b.refresh_creds THEN "refresh"
                              ELSE IF b.access_token # "none" THEN "token"
                              ELSE "done"]
        ELSE IF b.api_key # b.access_token
             THEN [b EXCEPT !.access_token = b.api_key, !.legacy = @ + 1,
                            !.pc = "token"]
             ELSE [b EXCEPT !.pc = "done"]

\* _authenticate_with_token, lines 110-191: the token manager's token, when
\* it has one, replaces self.access_token (lines 127-131); the client is
\* verified; an expired token with refresh credentials goes to
\* _refresh_access_token (lines 265-354), which returns a client or None
\* without another attempt; every other failure goes to
\* _handle_auth_failure
AuthenticateWithToken ==
    /\ auth.pc = "token"
    /\ auth.attempts < MaxAuthAttempts
    /\ \E outcome \in AuthOutcomes, refreshed \in BOOLEAN :
          LET a == [auth EXCEPT
                      !.access_token = IF auth.manager # "none"
                                       THEN auth.manager ELSE @,
                      !.attempts = @ + 1]
          IN  auth' =
                IF outcome = "ok"
                THEN [a EXCEPT !.pc = "done", !.auth_retries = 0,
                               !.dbx = TRUE]
                ELSE IF outcome = "expired_access_token" /\ a.refresh_creds
                THEN [a EXCEPT !.pc = "done", !.dbx = refreshed,
                               !.auth_retries = IF refreshed THEN 0 ELSE @]
                ELSE HandleAuthFailure(a)
    /\ UNCHANGED <<clock, coreVars, saveVars, connVars, refVars, dataVars, lockVars, streamVars>>

\* _authenticate_with_refresh, lines 193-263: the access token is tried,
\* then the token of the token file, then _refresh_access_token; each
\* failure is caught where it happens and None is returned
AuthenticateWithRefresh ==
    /\ auth.pc = "refresh"
    /\ auth.attempts < MaxAuthAttempts
    /\ \E outcome \in AuthOutcomes, refreshed \in BOOLEAN :
          auth' = [auth EXCEPT
                     !.attempts = @ + 1,
                     !.pc = "done",
                     !.dbx = (outcome = "ok" \/ refreshed),
                     !.auth_retries = IF outcome = "ok" \/ refreshed
                                      THEN 0 ELSE @]
    /\ UNCHANGED <<clock, coreVars, saveVars, connVars, refVars, dataVars, lockVars, streamVars>>

---------------------------------------------------------------------------
(* The process locks (app.py 55, utils/dropbox_storage.py 73-74 and 978,    *)
(* utils/memory_db.py 29, utils/model_download.py 21)                      *)

LockThreads == {"w1", "w2", "w3"}
Locks == {"db_lock", "_in_memory_db_lock", "_initialization_lock",
          "auth_lock", "lock", "_model_cache_lock"}

\* Every lock is a threading.RLock taken by a with statement: the owner
\* may take it again, and leaving the block, by its end or by an exception,
\* releases it
FreeLock == [owner |-> "none", count |-> 0]
Acq(l) == <<"acquire", l>>
Rel(l) == <<"release", l>>
With(l, body) == <<Acq(l)>> \o body \o <<Rel(l)>>

\* DropboxStorage._authenticate, lines 100-108, run by the constructor
authenticate_locks == With("auth_lock", <<>>)

\* An initialization that loads the in-memory database inside its lock
init_dropbox_storage_loads_db(construct) ==
    With("_initialization_lock",
         (IF construct THEN authenticate_locks ELSE <<>>)
         \o With("_in_memory_db_lock", <<>>))

\* init_dropbox_storage, lines 1048-1117: the existing client is reused or
\* a new one is constructed inside the initialization lock
init_dropbox_storage_locks(construct) ==
    With("_initialization_lock",
         IF construct THEN authenticate_locks ELSE <<>>)

\* get_dropbox_storage, lines 1119-1160: an unauthenticated client is
\* initialized again
get_dropbox_storage_locks(reinit) ==
    IF reinit THEN init_dropbox_storage_locks(TRUE) ELSE <<>>

\* The public methods of DropboxStorage, lines 520-955: with self.lock
storage_call_locks == With("lock", <<>>)

\* get_connection, db_helpers.py lines 105-118: initialization on demand,
\* then get_db_path
get_connection_locks(init) ==
    (IF init THEN init_dropbox_storage_locks(TRUE) ELSE <<>>)
    \o storage_call_locks

\* collect_data, app.py 242-244: store_interactions under db_lock mirrors
\* the batch to the blob store and opens a connection
collect_data_locks(init) ==
    With("db_lock",
         get_dropbox_storage_locks(init) \o storage_call_locks
         \o get_connection_locks(init))

\* upload_model, app.py 293-319: the blob is uploaded before db_lock is
\* taken for store_uploaded_model
upload_model_locks(init) ==
    get_dropbox_storage_locks(init) \o storage_call_locks
    \o With("db_lock", get_connection_locks(init))

\* update_base_model, model_orchestrator.py 22-82: two uploads, then
\* clear_model_cache under the model cache lock
update_base_model_locks(init) ==
    get_dropbox_storage_locks(init) \o storage_call_locks
    \o storage_call_locks \o With("_model_cache_lock", <<>>)

\* train_new_model, trainer.py 266-467, as far as the locks go: the
\* mirrored interactions are loaded, connections are opened, the model is
\* uploaded, old models are cleaned and the base model is updated
train_new_model_locks(init) ==
    get_dropbox_storage_locks(init) \o storage_call_locks
    \o get_connection_locks(init)
    \o storage_call_locks
    \o update_base_model_locks(init)

\* train_model_job, app.py 569-588: train_new_model under db_lock, then
\* clean_old_models_dropbox outside it
train_model_job_locks(init) ==
    With("db_lock", train_new_model_locks(init))
    \o get_dropbox_storage_locks(init) \o storage_call_locks

\* get_base_model_buffer / get_model_buffer, model_download.py 24-130 and
\* 150-265: the cache is read, the model fetched outside the lock, and the
\* cache written
download_model_locks(init) ==
    With("_model_cache_lock", <<>>)
    \o get_dropbox_storage_locks(init) \o storage_call_locks
    \o With("_model_cache_lock", <<>>)

\* commit_memory_db_copy, memory_db.py 223-243: sync_memory_db_to_dropbox
\* runs inside the in-memory DB lock
commit_memory_db_copy_locks(init) ==
    With("_in_memory_db_lock",
         get_dropbox_storage_locks(init) \o storage_call_locks)

\* The threads: two of the server's request threads, and one that is the
\* scheduler's thread (train_model_job) or a retraining thread, which runs
\* train_new_model without db_lock (trainer.py trigger_retraining)
Handlers == {"w1", "w2"}
Programs(th) ==
    IF th \in Handlers
    THEN UNION {{collect_data_locks(i), upload_model_locks(i),
                 download_model_locks(i), commit_memory_db_copy_locks(i),
                 init_dropbox_storage_locks(i)} : i \in BOOLEAN}
    ELSE UNION {{train_model_job_locks(i), train_new_model_locks(i)} :
                i \in BOOLEAN}

NoProgram == [ops |-> <<>>, pc |-> 1]

LockIdle ==
    /\ held = [l \in Locks |-> FreeLock]
    /\ prog = [th \in LockThreads |-> NoProgram]

Finished(th) == prog[th].pc > Len(prog[th].ops)
NextOp(th) == prog[th].ops[prog[th].pc]

\* The thread stands at a with statement whose lock another thread owns
Blocked(th) ==
    /\ ~Finished(th)
    /\ NextOp(th)[1] = "acquire"
    /\ held[NextOp(th)[2]].owner \notin {"none", th}

\* A thread starts a handler or a job
ThreadBegin(th) ==
    /\ Finished(th)
    /\ \E p \in Programs(th) : prog' = [prog EXCEPT ![th] = [ops |-> p, pc |-> 1]]
    /\ UNCHANGED <<clock, coreVars, saveVars, connVars, refVars, dataVars,
                   authVars, held, streamVars>>

\* RLock.acquire: granted when the lock is free or the thread owns it
ThreadAcquire(th) ==
    /\ ~Finished(th)
    /\ NextOp(th)[1] = "acquire"
    /\ ~Blocked(th)
    /\ held' = [held EXCEPT ![NextOp(th)[2]] =
                  [owner |-> th, count |-> @.count + 1]]
    /\ prog' = [prog EXCEPT ![th].pc = @ + 1]
    /\ UNCHANGED <<clock, coreVars, saveVars, connVars, refVars, dataVars,
                   authVars, streamVars>>

\* RLock.release at the end of the with block; the handler returns after
\* its last block
ThreadRelease(th) ==
    /\ ~Finished(th)
    /\ NextOp(th)[1] = "release"
    /\ held' = [held EXCEPT ![NextOp(th)[2]] =
                  IF @.count = 1 THEN FreeLock
                  ELSE [@ EXCEPT !.count = @ - 1]]
    /\ prog' = [prog EXCEPT ![th] =
                  IF @.pc = Len(@.ops) THEN NoProgram
                  ELSE [@ EXCEPT !.pc = @ + 1]]
    /\ UNCHANGED <<clock, coreVars, saveVars, connVars, refVars, dataVars,
                   authVars, streamVars>>

\* The release operations that remain for the with blocks the thread is
\* inside of at position pc, innermost first
RECURSIVE Unwind(_, _, _)
Unwind(ops, pc, depth) ==
    IF pc > Len(ops) THEN <<>>
    ELSE IF ops[pc][1] = "acquire" THEN Unwind(ops, pc + 1, depth + 1)
    ELSE IF depth > 0 THEN Unwind(ops, pc + 1, depth - 1)
    ELSE <<ops[pc]>> \o Unwind(ops, pc + 1, 0)

\* An exception inside the blocks: the rest of the handler is skipped and
\* every with statement on the way out releases its lock
ThreadRaise(th) ==
    /\ ~Finished(th)
    /\ ~Blocked(th)
    /\ Unwind(prog[th].ops, prog[th].pc, 0) # <<>>
    /\ prog' = [prog EXCEPT ![th] =
                  [ops |-> Unwind(prog[th].ops, prog[th].pc, 0), pc |-> 1]]
    /\ UNCHANGED <<clock, coreVars, saveVars, connVars, refVars, dataVars,
                   authVars, held, streamVars>>

---------------------------------------------------------------------------
(* Streaming model file (utils/model_streamer.py, lines 36-185)            *)

chunk_size == 2          \* StreamingModelFile.chunk_size, scaled down
MaxPosition == 4         \* positions the model follows lie in -MaxPosition..MaxPosition

\* The remote object: fixed bytes, all different
RemoteContent == <<11, 12, 13>>
content_length == Len(RemoteContent)

Offsets == -1 .. 4
Sizes == -1 .. 3
Whences == {0, 1, 2, 3}

\* The bytes of seq from index from (0-based) up to but not including upto
Slice(seq, from, upto) ==
    LET a == IF from < 0 THEN 0 ELSE from
        b == IF upto > Len(seq) THEN Len(seq) ELSE upto
    IN  IF a >= b THEN <<>> ELSE SubSeq(seq, a + 1, b)

NoResult == [kind |-> "none", val |-> <<>>]
ValueError == [kind |-> "ValueError", val |-> <<>>]
BytesResult(data) == [kind |-> "bytes", val |-> data]
PositionResult(p) == [kind |-> "position", val |-> <<p>>]

\* __init__, lines 44-68: position 0, empty buffer; failed records that a
\* ranged fetch of a well-formed range has failed
StreamInit ==
    /\ stream = [position |-> 0, buffer |-> <<>>, buffer_start |-> 0,
                 buffer_end |-> 0, closed |-> FALSE, failed |-> FALSE,
                 result |-> NoResult]
    /\ memfile = [position |-> 0, closed |-> FALSE, result |-> NoResult]

StreamIdle == StreamInit

\* What the remote answers to Range: bytes=first-last. A first byte at or
\* past the end is not satisfiable (416); a negative first byte makes the
\* header malformed, which a server either rejects or ignores, sending the
\* whole object with 200
RangeResponses == {"honoured", "ignored", "rejected"}
RangeFetch(first, last, response) ==
    IF first < 0
    THEN IF response = "ignored"
         THEN [ok |-> TRUE, data |-> RemoteContent]
         ELSE [ok |-> FALSE, data |-> <<>>]
    ELSE IF first >= content_length
    THEN [ok |-> FALSE, data |-> <<>>]
    ELSE [ok |-> TRUE, data |-> Slice(RemoteContent, first, last + 1)]

\* _read_chunk, lines 109-146: from the buffer when it holds the whole
\* range, by a ranged fetch otherwise; a failed fetch returns no bytes.
\* The result is the new state and the bytes read
_read_chunk(s, size, fetch_ok, response) ==
    IF s.position >= s.buffer_start /\ s.position + size <= s.buffer_end
    THEN LET data == Slice(s.buffer, s.position - s.buffer_start,
                           s.position - s.buffer_start + size)
         IN  [s |-> [s EXCEPT !.position = @ + Len(data)], data |-> data]
    ELSE LET r == RangeFetch(s.position, s.position + size - 1, response)
         IN  IF fetch_ok /\ r.ok
             THEN [s |-> [s EXCEPT !.position = @ + Len(r.data),
                                   !.buffer = r.data,
                                   !.buffer_start = s.position,
                                   !.buffer_end = s.position + Len(r.data)],
                   data |-> r.data]
             ELSE [s |-> [s EXCEPT !.failed =
                                     @ \/ (~fetch_ok /\ s.position >= 0)],
                   data |-> <<>>]

\* read with a negative size, lines 97-104: chunks until an empty one
RECURSIVE ReadAll(_, _, _, _)
ReadAll(s, acc, fetch_ok, response) ==
    LET c == _read_chunk(s, chunk_size, fetch_ok, response)
    IN  IF c.data = <<>> THEN [s |-> c.s, data |-> acc]
        ELSE ReadAll(c.s, acc \o c.data, fetch_ok, response)

\* StreamingModelFile.read, lines 84-107
read(s, size, fetch_ok, response) ==
    IF s.closed THEN [s EXCEPT !.result = ValueError]
    ELSE IF size < 0
    THEN LET c == ReadAll(s, <<>>, fetch_ok, response)
         IN  [c.s EXCEPT !.result = BytesResult(c.data)]
    ELSE IF size = 0 THEN [s EXCEPT !.result = BytesResult(<<>>)]
    ELSE LET c == _read_chunk(s, size, fetch_ok, response)
         IN  [c.s EXCEPT !.result = BytesResult(c.data)]

\* StreamingModelFile.seek, lines 148-174; content_length is known
seek(s, offset, whence) ==
    IF s.closed THEN [s EXCEPT !.result = ValueError]
    ELSE IF whence \notin {0, 1, 2} THEN [s EXCEPT !.result = ValueError]
    ELSE LET p == IF whence = 0 THEN offset
                  ELSE IF whence = 1 THEN s.position + offset
                  ELSE content_length + offset
         IN  [s EXCEPT !.position = p, !.result = PositionResult(p)]

\* StreamingModelFile.tell, lines 176-185
tell(s) ==
    IF s.closed THEN [s EXCEPT !.result = ValueError]
    ELSE [s EXCEPT !.result = PositionResult(s.position)]

\* The same operations of an in-memory file (io.BytesIO) over the bytes
memory_read(m, size) ==
    IF m.closed THEN [m EXCEPT !.result = ValueError]
    ELSE LET data == IF size < 0
                     THEN Slice(RemoteContent, m.position, content_length)
                     ELSE Slice(RemoteContent, m.position, m.position + size)
         IN  [m EXCEPT !.position = @ + Len(data),
                       !.result = BytesResult(data)]

memory_seek(m, offset, whence) ==
    IF m.closed THEN [m EXCEPT !.result = ValueError]
    ELSE IF whence \notin {0, 1, 2} THEN [m EXCEPT !.result = ValueError]
    ELSE IF whence = 0 /\ offset < 0 THEN [m EXCEPT !.result = ValueError]
    ELSE LET q == IF whence = 0 THEN offset
                  ELSE IF whence = 1 THEN m.position + offset
                  ELSE content_length + offset
             p == IF q < 0 THEN 0 ELSE q
         IN  [m EXCEPT !.position = p, !.result = PositionResult(p)]

memory_tell(m) ==
    IF m.closed THEN [m EXCEPT !.result = ValueError]
    ELSE [m EXCEPT !.result = PositionResult(m.position)]

InRange(s) == s.position \in -MaxPosition .. MaxPosition

StreamRead ==
    \E size \in Sizes, fetch_ok \in BOOLEAN, response \in RangeResponses :
        /\ stream' = read(stream, size, fetch_ok, response)
        /\ InRange(stream')
        /\ memfile' = memory_read(memfile, size)
        /\ InRange(memfile')
        /\ UNCHANGED <<clock, coreVars, saveVars, connVars, refVars, dataVars,
                       authVars, lockVars>>

StreamSeek ==
    \E offset \in Offsets, whence \in Whences :
        /\ stream' = seek(stream, offset, whence)
        /\ InRange(stream')
        /\ memfile' = memory_seek(memfile, offset, whence)
        /\ InRange(memfile')
        /\ UNCHANGED <<clock, coreVars, saveVars, connVars, refVars, dataVars,
                       authVars, lockVars>>

StreamTell ==
    /\ stream' = tell(stream)
    /\ memfile' = memory_tell(memfile)
    /\ UNCHANGED <<clock, coreVars, saveVars, connVars, refVars, dataVars,
                   authVars, lockVars>>

\* close, lines 76-82
StreamClose ==
    /\ ~stream.closed
    /\ stream' = [stream EXCEPT !.closed = TRUE, !.buffer = <<>>,
                                !.result = NoResult]
    /\ memfile' = [memfile EXCEPT !.closed = TRUE, !.result = NoResult]
    /\ UNCHANGED <<clock, coreVars, saveVars, connVars, refVars, dataVars,
                   authVars, lockVars>>

---------------------------------------------------------------------------
(* Specifications *)

TokenIdle ==
    /\ tm = [access_token |-> NoToken, refresh_token |-> FALSE,
             has_app_credentials |-> FALSE, expiry_time |-> NoExpiry,
             last_refresh_attempt |-> 0, auto_refresh |-> TRUE, file |-> NoFile]
    /\ tok = [op |-> "none", at |-> 0, ret |-> NoToken, result |-> FALSE,
              posted |-> FALSE, cooldown_elapsed |-> FALSE, issued |-> 0]

\* The subsystems added last, at rest
AuxIdle ==
    /\ SaveIdle
    /\ ConnIdle
    /\ RefIdle
    /\ DataIdle
    /\ AuthIdle
    /\ LockIdle
    /\ StreamIdle

\* The orchestrator: uploads, the scheduler and the training cycles
Init ==
    /\ OrchInit
    /\ IngestInit
    /\ TokenIdle
    /\ SyncIdle
    /\ SweepIdle
    /\ RetrainIdle
    /\ BaseIdle
    /\ UploadIdle
    /\ ThreadIdle
    /\ AuxIdle
    /\ clock = 1

Next ==
    \/ UploadStore
    \/ \E h \in awaiting : UploadTrigger(h)
    \/ SchedulerJob
    \/ Tick
    \/ \E t \in Cycles : CycleStep(t)

Spec == Init /\ [][Next]_vars

\* The ingest handler
InitIngest ==
    /\ IngestInit
    /\ uploaded_models = <<>>
    /\ model_versions = {}
    /\ ensemble_models = {}
    /\ blobs = {}
    /\ local_files = {}
    /\ db_lock = {}
    /\ awaiting = {}
    /\ cycles = [t \in Cycles |-> IdleCycle]
    /\ TokenIdle
    /\ SyncIdle
    /\ SweepIdle
    /\ RetrainIdle
    /\ BaseIdle
    /\ UploadIdle
    /\ ThreadIdle
    /\ AuxIdle
    /\ clock = 1

NextIngest ==
    \/ IngestBegin
    \/ IngestRow
    \/ IngestCommit
    \/ IngestTick

SpecIngest == InitIngest /\ [][NextIngest]_vars

\* The ingest handler with the blob store enabled, and the dataset of the
\* training cycles
NextData ==
    \/ IngestBeginMirrored
    \/ IngestRow
    \/ IngestCommit
    \/ IngestTick
    \/ PrepareTrainingData

SpecData == InitIngest /\ [][NextData]_vars

\* The token manager
InitToken ==
    /\ TokenInit
    /\ IngestInit
    /\ uploaded_models = <<>>
    /\ model_versions = {}
    /\ ensemble_models = {}
    /\ blobs = {}
    /\ local_files = {}
    /\ db_lock = {}
    /\ awaiting = {}
    /\ cycles = [t \in Cycles |-> IdleCycle]
    /\ SyncIdle
    /\ SweepIdle
    /\ RetrainIdle
    /\ BaseIdle
    /\ UploadIdle
    /\ ThreadIdle
    /\ AuxIdle
    /\ clock = TokenEpoch

NextToken ==
    \/ GetValidAccessToken
    \/ RefreshTokenIfNeededCall
    \/ TokenTick

SpecToken == InitToken /\ [][NextToken]_vars

\* The blob store client and the snapshot sync
InitSync ==
    /\ SyncInit
    /\ SweepIdle
    /\ RetrainIdle
    /\ BaseIdle
    /\ UploadIdle
    /\ ThreadIdle
    /\ AuxIdle
    /\ IngestInit
    /\ TokenIdle
    /\ uploaded_models = <<>>
    /\ model_versions = {}
    /\ ensemble_models = {}
    /\ blobs = {}
    /\ local_files = {}
    /\ db_lock = {}
    /\ awaiting = {}
    /\ cycles = [t \in Cycles |-> IdleCycle]
    /\ clock = SyncEpoch

NextSync ==
    \/ StoreUse
    \/ CommitMemoryDbCopy
    \/ BlobOperation
    \/ SyncTick

SpecSync == InitSync /\ [][NextSync]_vars

\* No thread pushes snapshots in the background; only the clock is sure to
\* advance
SpecSyncFair == SpecSync /\ WF_vars(SyncTick)

\* The retention sweep over the models folder
InitSweep ==
    /\ SweepInit
    /\ RetrainIdle
    /\ BaseIdle
    /\ UploadIdle
    /\ ThreadIdle
    /\ AuxIdle
    /\ IngestInit
    /\ TokenIdle
    /\ SyncIdle
    /\ uploaded_models = <<>>
    /\ model_versions = {}
    /\ ensemble_models = {}
    /\ blobs = {}
    /\ local_files = {}
    /\ db_lock = {}
    /\ awaiting = {}
    /\ cycles = [t \in Cycles |-> IdleCycle]
    /\ clock = 0

NextSweep ==
    \/ StoreTrainedModel
    \/ CleanOldModelsDropbox

SpecSweep == InitSweep /\ [][NextSweep]_vars

\* The retraining decision
InitRetrain ==
    /\ RetrainIdle
    /\ BaseIdle
    /\ UploadIdle
    /\ ThreadIdle
    /\ AuxIdle
    /\ SweepIdle
    /\ IngestInit
    /\ TokenIdle
    /\ SyncIdle
    /\ uploaded_models = <<>>
    /\ model_versions = {}
    /\ ensemble_models = {}
    /\ blobs = {}
    /\ local_files = {}
    /\ db_lock = {}
    /\ awaiting = {}
    /\ cycles = [t \in Cycles |-> IdleCycle]
    /\ clock = 0

NextRetrain == ShouldRetrainCall

SpecRetrain == InitRetrain /\ [][NextRetrain]_vars

\* The base model, its readers and its publisher
InitBase ==
    /\ BaseInit
    /\ UploadIdle
    /\ ThreadIdle
    /\ AuxIdle
    /\ TokenIdle
    /\ IngestInit
    /\ SyncIdle
    /\ SweepIdle
    /\ RetrainIdle
    /\ uploaded_models = <<>>
    /\ model_versions = {}
    /\ ensemble_models = {}
    /\ blobs = {}
    /\ local_files = {}
    /\ db_lock = {}
    /\ awaiting = {}
    /\ cycles = [t \in Cycles |-> IdleCycle]
    /\ clock = 0

NextBase ==
    \/ \E r \in Readers : ReadCheck(r) \/ ReadDownload(r) \/ ReadPut(r)
    \/ TrainNewModelBaseUpdate
    \/ UpdateBaseModelLatest
    \/ UpdateBaseModelVersioned
    \/ ClearModelCache

SpecBase == InitBase /\ [][NextBase]_vars

\* The upload handler
InitUpload ==
    /\ UploadIdle
    /\ BaseIdle
    /\ ThreadIdle
    /\ AuxIdle
    /\ TokenIdle
    /\ IngestInit
    /\ SyncIdle
    /\ SweepIdle
    /\ RetrainIdle
    /\ uploaded_models = <<>>
    /\ model_versions = {}
    /\ ensemble_models = {}
    /\ blobs = {}
    /\ local_files = {}
    /\ db_lock = {}
    /\ awaiting = {}
    /\ cycles = [t \in Cycles |-> IdleCycle]
    /\ clock = 0

NextUpload == UploadRequest

SpecUpload == InitUpload /\ [][NextUpload]_vars

\* Concurrent callers of the token manager
InitThreads ==
    /\ ThreadInit
    /\ AuxIdle
    /\ BaseIdle
    /\ UploadIdle
    /\ IngestInit
    /\ SyncIdle
    /\ SweepIdle
    /\ RetrainIdle
    /\ uploaded_models = <<>>
    /\ model_versions = {}
    /\ ensemble_models = {}
    /\ blobs = {}
    /\ local_files = {}
    /\ db_lock = {}
    /\ awaiting = {}
    /\ cycles = [t \in Cycles |-> IdleCycle]
    /\ clock = TokenEpoch

NextThreads ==
    \/ \E h \in Threads :
          ThreadCall(h) \/ ThreadCooldown(h) \/ ThreadStamp(h) \/ ThreadPost(h)
    \/ ThreadTick

SpecThreads == InitThreads /\ [][NextThreads]_vars

\* The token file across saves, crashes and restarts
InitSave ==
    /\ SaveInit
    /\ StreamIdle
    /\ LockIdle
    /\ AuthIdle
    /\ DataIdle
    /\ ConnIdle
    /\ RefIdle
    /\ IngestInit
    /\ TokenIdle
    /\ SyncIdle
    /\ SweepIdle
    /\ RetrainIdle
    /\ BaseIdle
    /\ UploadIdle
    /\ ThreadIdle
    /\ uploaded_models = <<>>
    /\ model_versions = {}
    /\ ensemble_models = {}
    /\ blobs = {}
    /\ local_files = {}
    /\ db_lock = {}
    /\ awaiting = {}
    /\ cycles = [t \in Cycles |-> IdleCycle]
    /\ clock = 1

NextSave ==
    \/ LoadTokens
    \/ SaveTokensOpen
    \/ SaveTokensDump
    \/ SaveCrash

SpecSave == InitSave /\ [][NextSave]_vars

\* Calls of the connection context manager
InitConn ==
    /\ ConnIdle
    /\ StreamIdle
    /\ LockIdle
    /\ AuthIdle
    /\ DataIdle
    /\ SaveIdle
    /\ RefIdle
    /\ IngestInit
    /\ TokenIdle
    /\ SyncIdle
    /\ SweepIdle
    /\ RetrainIdle
    /\ BaseIdle
    /\ UploadIdle
    /\ ThreadIdle
    /\ uploaded_models = <<>>
    /\ model_versions = {}
    /\ ensemble_models = {}
    /\ blobs = {}
    /\ local_files = {}
    /\ db_lock = {}
    /\ awaiting = {}
    /\ cycles = [t \in Cycles |-> IdleCycle]
    /\ clock = 1

NextConn ==
    \/ GetConnection
    \/ ConnConnect
    \/ ConnBody
    \/ ConnOtherWriter

SpecConn == InitConn /\ [][NextConn]_vars

\* The orchestrator with its scheduling: the scheduler thread evaluates
\* should_retrain again and again (app.py run_scheduler), a handler that
\* stored its row goes on to its trigger, and a started cycle runs on
SpecFair ==
    /\ Init
    /\ [][Next]_vars
    /\ WF_vars(SchedulerJob)
    /\ WF_vars(\E h \in awaiting : UploadTrigger(h))
    /\ \A t \in Cycles : WF_vars(CycleStep(t))

\* Upload requests and the objects they write
InitRef ==
    /\ RefInit
    /\ StreamIdle
    /\ LockIdle
    /\ AuthIdle
    /\ DataIdle
    /\ SaveIdle
    /\ ConnIdle
    /\ IngestInit
    /\ TokenIdle
    /\ SyncIdle
    /\ SweepIdle
    /\ RetrainIdle
    /\ BaseIdle
    /\ UploadIdle
    /\ ThreadIdle
    /\ uploaded_models = <<>>
    /\ model_versions = {}
    /\ ensemble_models = {}
    /\ blobs = {}
    /\ local_files = {}
    /\ db_lock = {}
    /\ awaiting = {}
    /\ cycles = [t \in Cycles |-> IdleCycle]
    /\ clock = 1

NextRef ==
    \/ UploadModelRef
    \/ RefTick

SpecRef == InitRef /\ [][NextRef]_vars

\* The blob store client's authentication at construction
InitAuth ==
    /\ AuthInit
    /\ StreamIdle
    /\ LockIdle
    /\ SaveIdle
    /\ ConnIdle
    /\ RefIdle
    /\ DataIdle
    /\ IngestInit
    /\ TokenIdle
    /\ SyncIdle
    /\ SweepIdle
    /\ RetrainIdle
    /\ BaseIdle
    /\ UploadIdle
    /\ ThreadIdle
    /\ uploaded_models = <<>>
    /\ model_versions = {}
    /\ ensemble_models = {}
    /\ blobs = {}
    /\ local_files = {}
    /\ db_lock = {}
    /\ awaiting = {}
    /\ cycles = [t \in Cycles |-> IdleCycle]
    /\ clock = 1

NextAuth ==
    \/ Authenticate
    \/ AuthenticateWithToken
    \/ AuthenticateWithRefresh

SpecAuth == InitAuth /\ [][NextAuth]_vars

\* The threads of the process on its locks
InitLocks ==
    /\ LockIdle
    /\ StreamIdle
    /\ AuthIdle
    /\ SaveIdle
    /\ ConnIdle
    /\ RefIdle
    /\ DataIdle
    /\ IngestInit
    /\ TokenIdle
    /\ SyncIdle
    /\ SweepIdle
    /\ RetrainIdle
    /\ BaseIdle
    /\ UploadIdle
    /\ ThreadIdle
    /\ uploaded_models = <<>>
    /\ model_versions = {}
    /\ ensemble_models = {}
    /\ blobs = {}
    /\ local_files = {}
    /\ db_lock = {}
    /\ awaiting = {}
    /\ cycles = [t \in Cycles |-> IdleCycle]
    /\ clock = 1

NextLocks ==
    \E th \in LockThreads :
        \/ ThreadBegin(th)
        \/ ThreadAcquire(th)
        \/ ThreadRelease(th)
        \/ ThreadRaise(th)

SpecLocks == InitLocks /\ [][NextLocks]_vars

\* A streaming model file and an in-memory file under the same operations
InitStream ==
    /\ StreamInit
    /\ LockIdle
    /\ AuthIdle
    /\ SaveIdle
    /\ ConnIdle
    /\ RefIdle
    /\ DataIdle
    /\ IngestInit
    /\ TokenIdle
    /\ SyncIdle
    /\ SweepIdle
    /\ RetrainIdle
    /\ BaseIdle
    /\ UploadIdle
    /\ ThreadIdle
    /\ uploaded_models = <<>>
    /\ model_versions = {}
    /\ ensemble_models = {}
    /\ blobs = {}
    /\ local_files = {}
    /\ db_lock = {}
    /\ awaiting = {}
    /\ cycles = [t \in Cycles |-> IdleCycle]
    /\ clock = 1

NextStream ==
    \/ StreamTell
    \/ StreamSeek
    \/ StreamRead
    \/ StreamClose

SpecStream == InitStream /\ [][NextStream]_vars

---------------------------------------------------------------------------
(* Properties *)

RunningCycles == {t \in Cycles : Running(t)}

\* C1: at any instant at most one execution of train_new_model is in
\* progress, however upload-triggered threads and the scheduler interleave.
C1_AtMostOneCycle == Cardinality(RunningCycles) <= 1

\* Cycles that were started and have not yet read the list of uploads
NotYetPickedUp == {t \in Cycles : cycles[t].pc \in {"start", "getpending"}}

\* C2: while no model version is recorded only the pending-count trigger can
\* fire; then with fewer than T_pending uploads no cycle has started, and
\* once T_pending uploads are pending one cycle is started for them: no
\* second cycle starts while the first has not picked the uploads up.
C2_OneCycleForThreshold ==
    model_versions = {} =>
        /\ (Len(uploaded_models) < T_pending => \A t \in Cycles : cycles[t].pc = "idle")
        /\ Cardinality(NotYetPickedUp) <= 1

\* C3: every upload whose status is incorporated has a non-null
\* incorporated_in_version, and a model_versions row with that version exists.
C3_IncorporatedHasVersion ==
    \A i \in UploadIds :
        uploaded_models[i].status = "incorporated" =>
            /\ uploaded_models[i].version # NoVersion
            /\ uploaded_models[i].version \in VersionKeys

Forward(a, b) ==
    \/ a = b
    \/ a = "pending" /\ b = "processing"
    \/ a = "processing" /\ b \in {"incorporated", "failed"}

\* C4: the status of an upload only moves forward along
\* pending -> processing -> {incorporated, failed}, also when cycles overlap.
C4_StatusMovesForward ==
    [][\A i \in UploadIds :
          Forward(uploaded_models[i].status, uploaded_models'[i].status)]_vars

\* C5: a version that the newest model_versions row reports as the latest
\* resolves to a redirect or to bytes on download, never to 404.
C5_LatestResolves ==
    \A v \in LatestCandidates : v \in VersionKeys => Resolve(v) # "NotFound"

AfterMark == {"fuse", "ensrow", "incorporate", "failmark", "save"}

\* C6: a cycle that fails after it marked its uploads processing and before
\* it stored the model version returns those uploads to pending and leaves
\* no model_versions or ensemble_models row of its version.
C6_FailureRollsBack ==
    [][\A t \in Cycles :
          (cycles[t].pc \in AfterMark /\ cycles'[t].pc = "failed") =>
              /\ \A i \in cycles[t].models : uploaded_models'[i].status = "pending"
              /\ \A r \in model_versions' : r.version # cycles[t].version
              /\ \A e \in ensemble_models' : e.ensemble_version # cycles[t].version]_vars

\* C7: a cycle that finds fewer than MIN_TRAINING_DATA rows ends without a
\* new model_versions row or blob, and every upload that was pending is
\* still pending.
C7_InsufficientDataNoEffect ==
    [][\A t \in Cycles :
          (cycles[t].pc = "start" /\ cycles'[t].pc = "aborted") =>
              /\ model_versions' = model_versions
              /\ ensemble_models' = ensemble_models
              /\ blobs' \subseteq blobs
              /\ \A i \in UploadIds :
                    uploaded_models[i].status = "pending" =>
                        uploaded_models'[i].status = "pending"]_vars

C7_Witness ==
    /\ \E t \in Cycles : cycles[t].pc = "aborted"
    /\ PendingCount >= T_pending

BatchIds(b) == {b[k].id : k \in 1..Len(b)}
RatedIds(b) == {b[k].id : k \in {j \in 1..Len(b) : b[j].rating # NoFeedback}}

\* C8: the rows of a batch become visible together or not at all: while the
\* handler writes, the committed tables do not change; when it raises, they
\* are as before the call; when it returns, every interaction of the batch
\* and every feedback row of the batch is present and the other rows are
\* untouched.
C8_BatchAtomic ==
    [][ingest.pc = "writing" =>
          /\ ingest'.pc \in {"writing", "raised"} =>
                (interactions' = interactions /\ feedback' = feedback)
          /\ ingest'.pc = "returned" =>
                /\ \A i \in BatchIds(ingest.batch) : interactions'[i].present
                /\ \A i \in RatedIds(ingest.batch) : feedback'[i].present
                /\ \A i \in InteractionIds \ BatchIds(ingest.batch) :
                      interactions'[i] = interactions[i]
                /\ \A i \in InteractionIds \ RatedIds(ingest.batch) :
                      feedback'[i] = feedback[i]]_vars

\* the handler raised on the second interaction, after it wrote the first
C8_Witness ==
    /\ ingest.pc = "raised"
    /\ ingest.next = 2
    /\ ingest.batch[1].id # ingest.batch[2].id
    /\ ~interactions[ingest.batch[1].id].present

\* C9: a batch submitted again right after it was stored leaves the store as
\* it was: the same rows with the same field values.
C9_ResubmitSameStore ==
    [][(ingest.pc = "writing" /\ ingest.resubmit /\ ingest'.pc = "returned") =>
          (interactions' = interactions /\ feedback' = feedback)]_vars

Expired(m, now) == m.expiry_time # NoExpiry /\ m.expiry_time <= now

\* C10: when a refresh token and the app credentials are configured and the
\* cooldown had elapsed at the call, get_valid_access_token returns null or
\* a token that is not expired at the time of the call.
C10_NoExpiredToken ==
    (/\ tok.op = "get_valid_access_token"
     /\ tm.auto_refresh /\ tm.refresh_token /\ tm.has_app_credentials
     /\ tok.cooldown_elapsed
     /\ tok.ret # NoToken)
        => ~Expired(tm, tok.at)

\* C11: a call of get_valid_access_token or refresh_token_if_needed made
\* less than refresh_cooldown seconds after the last refresh attempt sends
\* no request to the token endpoint and leaves the manager's fields as they
\* are.
C11_CooldownNoRequest ==
    [][(tok' # tok /\ clock - tm.last_refresh_attempt < refresh_cooldown) =>
          (~tok'.posted /\ tm' = tm)]_vars

\* a call half a cooldown after a failed refresh, with the token expired
C11_Witness ==
    /\ tok.op = "get_valid_access_token"
    /\ ~tok.cooldown_elapsed
    /\ ~tok.posted
    /\ 2 * (tok.at - tm.last_refresh_attempt) = refresh_cooldown
    /\ tm.refresh_token /\ tm.has_app_credentials /\ tm.auto_refresh
    /\ Expired(tm, tok.at)

\* C12: a refresh whose request is not answered with status 200 leaves
\* access_token, refresh_token, expiry_time and the token file unchanged,
\* reports failure, and the cooldown counts from that attempt.  (In the
\* model a request that was sent and failed is one with a non-200 status or
\* with no answer.)
C12_FailedRefreshKeepsTokens ==
    [][(tok' # tok /\ tok'.posted /\ ~tok'.result) =>
          /\ tm'.access_token = tm.access_token
          /\ tm'.refresh_token = tm.refresh_token
          /\ tm'.expiry_time = tm.expiry_time
          /\ tm'.file = tm.file
          /\ tm'.last_refresh_attempt = clock
          /\ ~CooldownElapsed(tm', clock + refresh_cooldown - 1)]_vars

C12_Witness ==
    /\ tok.posted
    /\ ~tok.result
    /\ tm.last_refresh_attempt = tok.at
    /\ tm.access_token # NoToken
    /\ tm.file.exists
    /\ Expired(tm, tok.at)

\* C13: a blob store operation that gets an expired-token answer refreshes
\* the token once and tries the operation once more before it reports
\* failure.
C13_RefreshAndRetryOnce ==
    (bop.op # "none" /\ bop.first_answer = "expired_access_token") =>
        (bop.refreshes = 1 /\ bop.attempts = 2)

\* C14: two consecutive pushes of the DB snapshot are at least one sync
\* interval apart.
C14_OnePushPerInterval ==
    sync.prev_push # NoPush =>
        sync.last_push - sync.prev_push >= DROPBOX_DB_SYNC_INTERVAL

\* C15: a commit whose push was skipped because of the rate limit is
\* eventually contained in a pushed snapshot, also when no write follows.
C15_SkippedPushHappensLater ==
    (sync.skipped /\ sync.pushed # sync.rev) ~> (sync.pushed = sync.rev)


\* C16: every step of a training cycle that changes the uploaded-model,
\* ensemble or model-version rows is taken by a cycle that holds the
\* process-wide write lock db_lock.
C16_MutationsUnderLock ==
    [][\A t \in Cycles :
          (/\ cycles'[t] # cycles[t]
           /\ Running(t)
           /\ \/ uploaded_models' # uploaded_models
              \/ ensemble_models' # ensemble_models
              \/ model_versions' # model_versions)
          => t \in db_lock]_vars


\* C17: a sweep with keep count MAX_MODELS_TO_KEEP in which every delete
\* succeeds leaves exactly MAX_MODELS_TO_KEEP non-base versions, the ones
\* with the greatest timestamps, when the folder held more than that, and
\* deletes nothing when it held that many or fewer.
C17_SweepKeepsNewest ==
    [][(/\ sweep' # sweep
        /\ sweep'.keep_newest = MAX_MODELS_TO_KEEP
        /\ sweep'.failed = {})
       => LET had == model_files(models_folder)
              has == model_files(models_folder')
          IN  IF Cardinality(had) > MAX_MODELS_TO_KEEP
              THEN /\ Cardinality(has) = MAX_MODELS_TO_KEEP
                   /\ has \subseteq had
                   /\ \A k \in has, d \in had \ has :
                         Timestamp(k) > Timestamp(d)
              ELSE models_folder' = models_folder]_vars


\* C18: after a sweep in which every delete succeeded, no removed version
\* has a blob or a model_versions row any more.
C18_RemovedBlobAndRow ==
    sweep.failed = {} =>
        \A m \in sweep.models_to_delete :
            /\ m \notin models_folder
            /\ m.version \notin version_rows

C21_PublishOrder ==
    [][\A t \in Cycles :
          LET v == cycles[t].version
          IN  cycles'[t] # cycles[t] =>
              /\ (v \notin VersionKeys /\ v \in {r.version : r \in model_versions'})
                    => v \in blobs
              /\ (v \notin EnsembleKeys
                    /\ v \in {e.ensemble_version : e \in ensemble_models'})
                    => v \in VersionKeys
              /\ (cycles[t].pc \in {"incorporate", "failmark"}
                    /\ uploaded_models' # uploaded_models)
                    => (v \in VersionKeys /\ v \in blobs)]_vars

\* C22: the upload handler never has to wait for a training cycle: while a
\* cycle runs, the lock the handler needs for storing the upload is free.
C22_UploadNeverWaitsForCycle ==
    \A t \in Cycles : Running(t) => db_lock = {}

\* C23: a cycle whose fusion could add none of its uploads goes on without an
\* ensemble: it does not insert an EnsembleRecord and does not mark its
\* uploads incorporated.
C23_NoMemberNoEnsemble ==
    \A t \in Cycles :
        cycles[t].none_added =>
            /\ ~cycles[t].is_ensemble
            /\ cycles[t].pc \notin {"ensrow", "incorporate"}


\* C27: when a cycle that fused k >= 1 uploads completes, a ModelVersion row
\* for its version exists, an EnsembleRecord for that version lists the k
\* uploads, and each of them is incorporated in that version.
C27_FusedCyclePublishes ==
    [][\A t \in Cycles :
          (/\ cycles[t].pc = "clean"
           /\ cycles'[t].pc = "done"
           /\ cycles[t].is_ensemble
           /\ cycles[t].models # {})
          => LET v == cycles[t].version
             IN  /\ v \in {r.version : r \in model_versions'}
                 /\ \E e \in ensemble_models' :
                       e.ensemble_version = v /\ e.components = cycles[t].models
                 /\ \A i \in cycles[t].models :
                       uploaded_models'[i] = [status |-> "incorporated",
                                              version |-> v]]_vars

\* C28: every EnsembleRecord belongs to a version that has a ModelVersion
\* row.
C28_EnsembleHasVersionRow ==
    EnsembleKeys \subseteq VersionKeys

\* C29: an upload carries an incorporated_in_version exactly when its status
\* is incorporated.
C29_VersionIffIncorporated ==
    \A i \in UploadIds :
        (uploaded_models[i].version # NoVersion)
            <=> (uploaded_models[i].status = "incorporated")


\* C24: a download of version 1.0.0 that begins after a cycle has published
\* a version serves the bytes of a published version at least that new,
\* never the seed artifact.
C24_BaseTracksPublish ==
    \A r \in Readers :
        (/\ readers[r].pc = "done"
         /\ readers[r].result # NoBytes
         /\ readers[r].published > 0)
        => readers[r].result >= readers[r].published

\* C25: bytes are put into the base-model cache only if they were fetched
\* after the last invalidation of the cache.
C25_NoStalePut ==
    [][\A r \in Readers :
          (readers[r].pc = "put" /\ readers'[r].pc = "done")
          => readers[r].clears = base.clears]_vars

\* C26: an upload request with a file of more than MAX_UPLOAD_SIZE_MB is
\* answered with 400 and creates neither a blob nor an UploadedModel row.
C26_OversizeRejected ==
    (req.handled /\ req.has_file /\ req.size_mb > MAX_UPLOAD_SIZE_MB)
    => (req.status = 400 /\ ~req.blob /\ ~req.row)

\* C30: any two requests that concurrent callers send to the token endpoint
\* belong to attempts at least one cooldown apart.
C30_OnePostPerCooldown ==
    \A i \in 1..Len(posts), j \in 1..Len(posts) :
        i < j => posts[j] - posts[i] >= refresh_cooldown

\* C31: at every point, a crash in the middle of a save included, the token
\* file holds a complete token state (the previous one or the new one), so
\* a restart never finds a truncated or partly written file.
C31_TokenFileComplete ==
    /\ tfile.exists => tfile.complete
    /\ saver.loaded # "error"

C33_ProcessingEnds ==
    \A i \in 1..MaxUploads :
        (i \in UploadIds /\ uploaded_models[i].status = "processing")
        ~> (i \in UploadIds /\ uploaded_models[i].status # "processing")

\* C34: a cycle that returns its new version has stored the ModelVersion
\* row of that version itself (so the version was not stored before), and
\* no upload is left incorporated into a version without that row.
C34_ReturnedVersionStored ==
    [][\A t \in Cycles :
          (cycles[t].pc = "clean" /\ cycles'[t].pc = "done")
          => /\ cycles[t].stored
             /\ cycles[t].version \in VersionKeys
             /\ \A i \in cycles[t].models :
                   uploaded_models'[i].status = "incorporated"
                   => uploaded_models'[i].version \in VersionKeys]_vars

\* C37: a cycle changes the status only of the uploads in the list it read
\* at lines 304-306: whenever the status of a stored upload changes, a cycle
\* whose list holds that upload has taken the step, so an upload inserted
\* after the read is not touched by that cycle.
C37_OnlySelectedChange ==
    [][\A i \in UploadIds :
          uploaded_models'[i].status # uploaded_models[i].status
          => \E t \in Cycles : /\ cycles'[t] # cycles[t]
                               /\ i \in cycles[t].models]_vars

\* a cycle has marked the uploads of its list and goes on while an upload
\* that was stored after the read is pending
C37_Witness ==
    \E t \in Cycles, i \in UploadIds :
        /\ cycles[t].pc \in {"save", "upload", "insert", "clean"}
        /\ cycles[t].models # {}
        /\ \A j \in cycles[t].models :
              j < i /\ uploaded_models[j].status \in {"incorporated", "failed"}
        /\ i \notin cycles[t].models
        /\ uploaded_models[i].status = "pending"

\* C35: the blob_ref of every UploadedModel row designates an object that
\* holds the bytes uploaded in the request which stored the row.
C35_RowResolvesToOwnBytes ==
    \A k \in 1..Len(urows) : ublobs[urows[k].blob_ref] = urows[k].content

\* C36: the dataset of a training cycle holds no interaction that is known
\* only from a batch whose transaction was rolled back: a dataset built
\* after a rollback holds an interaction of that batch only if some batch
\* committed it.
C36_DatasetCommittedOnly ==
    [][(ingest.pc = "raised" /\ ingest' = ingest /\ dataset' # dataset)
       => \A i \in dataset' \cap IdsOf(ingest.batch) :
             interactions[i].present]_vars

\* C38: after the first failed authentication at most max_retries further
\* attempts and one attempt with the legacy API key are made; then the
\* client stays unauthenticated instead of trying again.
C38_AuthAttemptsBounded ==
    /\ auth.attempts <= 1 + max_retries + 1
    /\ auth.legacy <= 1

\* The thread th waits for, through at most n owners of awaited locks,
\* reaches a thread that can take its next step
RECURSIVE ChainEnds(_, _)
ChainEnds(th, n) ==
    IF ~Blocked(th) THEN TRUE
    ELSE IF n = 0 THEN FALSE
    ELSE ChainEnds(held[NextOp(th)[2]].owner, n - 1)

\* C39: no interleaving of the handlers, the scheduler's job and the
\* retraining threads deadlocks on the process locks: a thread waiting for
\* a lock waits, directly or through other waiting threads, for a thread
\* that is able to run on and release what it holds.
C39_NoLockCycle ==
    \A th \in LockThreads : ChainEnds(th, Cardinality(LockThreads))

\* Two threads wait in a chain: one for a lock whose owner waits itself
C39_Witness ==
    \E th \in LockThreads :
        /\ Blocked(th)
        /\ Blocked(held[NextOp(th)[2]].owner)

\* C40: as long as no ranged fetch has failed, every seek, read and tell of
\* the streaming file returns what the same operation returns on an
\* in-memory copy of the object, errors after close included, and both
\* stand at the same position.
C40_SameAsMemoryCopy ==
    ~stream.failed =>
        /\ stream.result = memfile.result
        /\ stream.closed = memfile.closed
        /\ ~stream.closed => stream.position = memfile.position

=============================================================================
